---- MODULE Spec2Model ----
(***************************************************************************)
(* js-idb: a schema-validated document store with per-field sorted         *)
(* indexes, in two persistence modes.  The model runs one memory-mode      *)
(* Collection (MemoryAdapter) and one file-mode Collection (FileAdapter)   *)
(* side by side: every call is applied to both, with the same generated    *)
(* identifier, so that claims about "both modes" are checked on both and   *)
(* the two modes can be compared step by step.                             *)
(*                                                                         *)
(* JavaScript values are tagged records [t, v]; v is always a sequence of  *)
(* integers so that any two values can be compared by TLC:                 *)
(*   string  -> the UTF-16 code units                                      *)
(*   number  -> <<n>>  (the IEEE value +Infinity is <<Infinity>>)          *)
(*   boolean -> <<0>> or <<1>>                                             *)
(*   null, undefined -> <<>>                                               *)
(***************************************************************************)
EXTENDS Integers, Sequences, FiniteSets, TLC

\* ------------------------------------------------------------------ bounds

\* identifiers generateId() hands out in one behaviour
MaxIds == 2
\* longest batch passed to addMany
MaxBatch == 2
\* entries one Index holds, and the identifiers they carry, when an Index is
\* driven on its own
MaxEntries == 3
MaxIndexIds == 2

\* ------------------------------------------------------------------ values

\* Code units of the characters the model's strings are made of.
Ch == [ A |-> 65, a |-> 97, b |-> 98, e |-> 101, l |-> 108, r |-> 114,
        s |-> 115, u |-> 117, I |-> 73, n |-> 110, f |-> 102, i |-> 105,
        t |-> 116, y |-> 121, zero |-> 48, one |-> 49, nine |-> 57,
        pct |-> 37, gt |-> 62, lt |-> 60, eq |-> 61, sp |-> 32, Z |-> 90,
        B |-> 66, T |-> 84 ]

\* The number the model uses for +Infinity: above every finite number in it.
Infinity == 1000

Undef == [t |-> "undefined", v |-> <<>>]
Null == [t |-> "null", v |-> <<>>]
NaN == [t |-> "NaN", v |-> <<>>]
Str(s) == [t |-> "string", v |-> s]
Num(k) == [t |-> "number", v |-> <<k>>]
Bool(b) == [t |-> "boolean", v |-> IF b THEN <<1>> ELSE <<0>>]

\* typeof value
TypeOf(val) ==
  IF val.t = "null" THEN "object"
  ELSE IF val.t = "NaN" THEN "number"
  ELSE val.t

\* !!value
Truthy(val) ==
  CASE val.t = "undefined" -> FALSE
    [] val.t = "null" -> FALSE
    [] val.t = "NaN" -> FALSE
    [] val.t = "boolean" -> val.v = <<1>>
    [] val.t = "number" -> val.v # <<0>>
    [] val.t = "string" -> val.v # <<>>
    [] OTHER -> TRUE

\* a === b (no NaN is ever stored: validation rejects it)
StrictEq(a, b) == a.t # "NaN" /\ a = b

\* ------------------------------------------------------------------ strings

Min(x, y) == IF x < y THEN x ELSE y

\* s.startsWith(p)
StartsWith(s, p) == Len(p) <= Len(s) /\ SubSeq(s, 1, Len(p)) = p

\* s.endsWith(p)
EndsWith(s, p) ==
  Len(p) <= Len(s) /\ SubSeq(s, Len(s) - Len(p) + 1, Len(s)) = p

\* s.includes(p)
Includes(s, p) ==
  \E k \in 0..(Len(s) - Len(p)) : SubSeq(s, k + 1, k + Len(p)) = p

\* s.toLowerCase(), on the ASCII letters
ToLowerCase(s) ==
  [k \in 1..Len(s) |-> IF s[k] >= Ch.A /\ s[k] <= Ch.Z THEN s[k] + 32 ELSE s[k]]

\* s < t for two strings: code-unit lexicographic order
StrLess(s, u) ==
  \/ \E k \in 1..Min(Len(s), Len(u)) :
        /\ SubSeq(s, 1, k - 1) = SubSeq(u, 1, k - 1)
        /\ s[k] < u[k]
  \/ Len(s) < Len(u) /\ SubSeq(u, 1, Len(s)) = s

IsDigit(c) == c >= Ch.zero /\ c <= Ch.nine

RECURSIVE DigitsValue(_)
DigitsValue(s) ==
  IF s = <<>> THEN 0
  ELSE 10 * DigitsValue(SubSeq(s, 1, Len(s) - 1)) + (s[Len(s)] - Ch.zero)

RECURSIVE TrimLeft(_)
TrimLeft(s) ==
  IF s # <<>> /\ s[1] = Ch.sp THEN TrimLeft(Tail(s)) ELSE s

RECURSIVE TrimRight(_)
TrimRight(s) ==
  IF s # <<>> /\ s[Len(s)] = Ch.sp
  THEN TrimRight(SubSeq(s, 1, Len(s) - 1)) ELSE s

InfinityLiteral == <<Ch.I, Ch.n, Ch.f, Ch.i, Ch.n, Ch.i, Ch.t, Ch.y>>

\* Number(s) for strings over the model's alphabet (digits, blanks, letters,
\* the operator characters): blanks are trimmed, the empty string is 0, a run
\* of digits is its value, "Infinity" is +Infinity, anything else is NaN.
ToNumber(s) ==
  LET u == TrimRight(TrimLeft(s)) IN
  IF u = <<>> THEN Num(0)
  ELSE IF u = InfinityLiteral THEN Num(Infinity)
  ELSE IF \A k \in 1..Len(u) : IsDigit(u[k]) THEN Num(DigitsValue(u))
  ELSE NaN

\* The operand of a relational comparison, ToNumber of a non-string value.
RelNum(val) ==
  CASE val.t = "number" -> val.v[1]
    [] val.t = "boolean" -> val.v[1]
    [] OTHER -> 0

\* a < b
Less(a, b) ==
  IF a.t = "string" /\ b.t = "string" THEN StrLess(a.v, b.v)
  ELSE IF a.t \in {"undefined", "NaN"} \/ b.t \in {"undefined", "NaN"} THEN FALSE
  ELSE RelNum(a) < RelNum(b)

\* String(value); the pattern queries run on string fields only, whose index
\* holds strings only (validateRecord), so other values are not spelled out
ToStr(val) ==
  IF val.t = "string" THEN val.v ELSE <<>>

\* ------------------------------------------------------------------ Index
\* An Index is its entry sequence, entries [value, id]; the field type and
\* the ignoreCase flag are passed to the operations that read them.

Entry(value, id) == [value |-> value, id |-> id]

\* A faulty normalize that stores the value as given.
normalizeNone(ignoreCase, value) == value

\* Index.normalize
normalize(ignoreCase, value) ==
  IF ignoreCase /\ value.t = "string" THEN Str(ToLowerCase(value.v)) ELSE value

\* Index.compare
compare(a, b) ==
  IF Less(a, b) THEN 0 - 1 ELSE IF Less(b, a) THEN 1 ELSE 0

\* A faulty lowerBound that returns the position behind the entries of the
\* target's value (the upper bound).
upperBound(entries, target) ==
  Cardinality({k \in 1..Len(entries) : compare(entries[k].value, target) <= 0})

RECURSIVE lowerBoundLoop(_, _, _, _)
lowerBoundLoop(entries, target, lo, hi) ==
  IF lo < hi
  THEN LET mid == (lo + hi) \div 2 IN
       IF compare(entries[mid + 1].value, target) < 0
       THEN lowerBoundLoop(entries, target, mid + 1, hi)
       ELSE lowerBoundLoop(entries, target, lo, mid)
  ELSE lo

\* Index.lowerBound: 0-based position, by binary search
lowerBound(entries, target) == lowerBoundLoop(entries, target, 0, Len(entries))

\* entries.splice(idx, 0, entry), idx 0-based
SpliceIn(entries, idx, entry) ==
  SubSeq(entries, 1, idx) \o <<entry>> \o SubSeq(entries, idx + 1, Len(entries))

\* entries.splice(i, 1), i 0-based
SpliceOut(entries, i) ==
  SubSeq(entries, 1, i) \o SubSeq(entries, i + 2, Len(entries))

\* A faulty add that inserts behind the entries of the same value (at the
\* upper bound instead of the lower bound).
IndexAddAfterTies(entries, ignoreCase, id, value) ==
  LET normalized == normalize(ignoreCase, value)
      upper == Cardinality({k \in 1..Len(entries) :
                              compare(entries[k].value, normalized) <= 0})
  IN SpliceIn(entries, upper, Entry(normalized, id))

\* Index.add
IndexAdd(entries, ignoreCase, id, value) ==
  LET normalized == normalize(ignoreCase, value) IN
  SpliceIn(entries, lowerBound(entries, normalized), Entry(normalized, id))

\* A faulty remove that takes out every entry of the pair, not only the first.
IndexRemoveEvery(entries, ignoreCase, id, value) ==
  LET normalized == normalize(ignoreCase, value) IN
  SelectSeq(entries, LAMBDA e : ~(StrictEq(e.value, normalized) /\ e.id = id))

RECURSIVE IndexRemoveLoop(_, _, _, _)
IndexRemoveLoop(entries, normalized, id, i) ==
  IF i >= Len(entries) THEN entries
  ELSE IF ~StrictEq(entries[i + 1].value, normalized) THEN entries
  ELSE IF entries[i + 1].id = id THEN SpliceOut(entries, i)
  ELSE IndexRemoveLoop(entries, normalized, id, i + 1)

\* Index.remove
IndexRemove(entries, ignoreCase, id, value) ==
  LET normalized == normalize(ignoreCase, value) IN
  IndexRemoveLoop(entries, normalized, id, lowerBound(entries, normalized))

RECURSIVE TieRun(_, _, _)
\* the ids of the run of entries from position i whose value === target
TieRun(entries, target, i) ==
  IF i >= Len(entries) THEN <<>>
  ELSE IF ~StrictEq(entries[i + 1].value, target) THEN <<>>
  ELSE <<entries[i + 1].id>> \o TieRun(entries, target, i + 1)

\* Index.exactQuery
exactQuery(entries, target) == TieRun(entries, target, lowerBound(entries, target))

RECURSIVE PrefixRun(_, _, _)
PrefixRun(entries, normalized, i) ==
  IF i >= Len(entries) THEN <<>>
  ELSE IF ~StartsWith(ToStr(entries[i + 1].value), normalized) THEN <<>>
  ELSE <<entries[i + 1].id>> \o PrefixRun(entries, normalized, i + 1)

\* A faulty prefixQuery that searches for the prefix as given, without
\* lower-casing it on a case-insensitive index.
prefixQueryRaw(entries, ignoreCase, prefix) ==
  PrefixRun(entries, prefix, lowerBound(entries, Str(prefix)))

\* Index.prefixQuery
prefixQuery(entries, ignoreCase, prefix) ==
  LET normalized == IF ignoreCase THEN ToLowerCase(prefix) ELSE prefix IN
  PrefixRun(entries, normalized, lowerBound(entries, Str(normalized)))

RECURSIVE FilterIds(_, _)
\* entries.filter(pred).map(e => e.id); keep[k] is pred(entries[k])
FilterIds(entries, keep) ==
  IF entries = <<>> THEN <<>>
  ELSE (IF Head(keep) THEN <<Head(entries).id>> ELSE <<>>)
       \o FilterIds(Tail(entries), Tail(keep))

\* Index.suffixQuery
suffixQuery(entries, ignoreCase, suffix) ==
  LET normalized == IF ignoreCase THEN ToLowerCase(suffix) ELSE suffix IN
  FilterIds(entries, [k \in 1..Len(entries) |->
                        EndsWith(ToStr(entries[k].value), normalized)])

\* Index.containsQuery
containsQuery(entries, ignoreCase, sub) ==
  LET normalized == IF ignoreCase THEN ToLowerCase(sub) ELSE sub IN
  FilterIds(entries, [k \in 1..Len(entries) |->
                        Includes(ToStr(entries[k].value), normalized)])

\* A faulty rangeQuery whose '>' does not skip the entries equal to the
\* target and whose '<=' does not add them.
rangeQueryTies(entries, op, target) ==
  LET idx == lowerBound(entries, target) IN
  IF op = <<Ch.gt>> \/ op = <<Ch.gt, Ch.eq>>
  THEN [k \in 1..(Len(entries) - idx) |-> entries[idx + k].id]
  ELSE [k \in 1..idx |-> entries[k].id]

\* Index.rangeQuery; op is the operator's code units
rangeQuery(entries, op, target) ==
  LET idx == lowerBound(entries, target) IN
  IF op = <<Ch.gt>> \/ op = <<Ch.gt, Ch.eq>>
  THEN LET rest == SubSeq(entries, idx + 1, Len(entries)) IN
       FilterIds(rest, [k \in 1..Len(rest) |->
                          ~(op = <<Ch.gt>> /\ StrictEq(rest[k].value, target))])
  ELSE LET before == [k \in 1..idx |-> entries[k].id] IN
       IF op = <<Ch.lt, Ch.eq>>
       THEN before \o TieRun(entries, target, idx)
       ELSE before

\* The outcome of a query: the ids found, or a thrown error.
Found(ids) == [err |-> "none", ids |-> ids]
Thrown(err) == [err |-> err, ids |-> <<>>]

\* query.match(/^(>=?|<=?)(.+)$/): the operator and the rest, or no match
RangeMatch(query) ==
  IF Len(query) >= 3 /\ query[1] \in {Ch.gt, Ch.lt} /\ query[2] = Ch.eq
  THEN [matched |-> TRUE, op |-> SubSeq(query, 1, 2),
        rest |-> SubSeq(query, 3, Len(query))]
  ELSE IF Len(query) >= 2 /\ query[1] \in {Ch.gt, Ch.lt}
  THEN [matched |-> TRUE, op |-> SubSeq(query, 1, 1),
        rest |-> SubSeq(query, 2, Len(query))]
  ELSE [matched |-> FALSE, op |-> <<>>, rest |-> <<>>]

\* Index.find
IndexFind(entries, fieldType, ignoreCase, query) ==
  IF fieldType = "number"
  THEN LET m == RangeMatch(query) IN
       IF m.matched
       THEN IF ToNumber(m.rest).t = "NaN" THEN Thrown("syntax")
            ELSE Found(rangeQuery(entries, m.op, ToNumber(m.rest)))
       ELSE IF ToNumber(query).t # "NaN"
            THEN Found(exactQuery(entries, ToNumber(query)))
            ELSE Thrown("syntax")
  ELSE IF fieldType = "boolean"
  THEN IF query = <<Ch.t, Ch.r, Ch.u, Ch.e>> THEN Found(exactQuery(entries, Bool(TRUE)))
       ELSE IF query = <<Ch.f, Ch.a, Ch.l, Ch.s, Ch.e>>
            THEN Found(exactQuery(entries, Bool(FALSE)))
            ELSE Thrown("syntax")
  ELSE LET startsWithWild == query # <<>> /\ query[1] = Ch.pct
           endsWithWild == query # <<>> /\ query[Len(query)] = Ch.pct
       IN IF startsWithWild /\ endsWithWild /\ Len(query) > 1
          THEN Found(containsQuery(entries, ignoreCase,
                                   SubSeq(query, 2, Len(query) - 1)))
          ELSE IF endsWithWild
          THEN Found(prefixQuery(entries, ignoreCase,
                                 SubSeq(query, 1, Len(query) - 1)))
          ELSE IF startsWithWild
          THEN Found(suffixQuery(entries, ignoreCase, SubSeq(query, 2, Len(query))))
          ELSE Found(exactQuery(entries,
                       Str(IF ignoreCase THEN ToLowerCase(query) ELSE query)))

\* Index.serialize: the entry sequence, verbatim
serialize(entries) == entries

\* Index.fromEntries: an index holding the given entry sequence, verbatim
fromEntries(entries) == entries

\* ------------------------------------------------------------------ schema
\* A Schema maps field names to FieldDefinitions.  index is the value of the
\* optional property (a boolean, or undefined when omitted); hasSetting says
\* whether indexSetting is present and ignoreCase is its optional property.

FieldDef(type, index, hasSetting, ignoreCase, default) ==
  [type |-> type, index |-> index, hasSetting |-> hasSetting,
   ignoreCase |-> ignoreCase, default |-> default]

\* def.indexSetting?.ignoreCase
SettingIgnoreCase(def) == IF def.hasSetting THEN def.ignoreCase ELSE Undef

\* the ignoreCase an Index is constructed with: the constructor's default
\* parameter (false) and fromEntries' `?? false` both replace undefined
IndexIgnoreCase(def) == Truthy(SettingIgnoreCase(def))

\* the fields that get an Index: `if (def.index)`
IndexedFields(schema_) == {f \in DOMAIN schema_ : Truthy(schema_[f].index)}

\* validateSchema: TRUE when it throws
validateSchema(schema_) ==
  \E f \in DOMAIN schema_ :
     \/ Truthy(schema_[f].index) /\ schema_[f].type = "object"
     \/ schema_[f].hasSetting /\ ~Truthy(schema_[f].index)
     \/ schema_[f].hasSetting /\ schema_[f].type # "string"

\* ------------------------------------------------------------------ records
\* A record is a function from the property names it has to values.

EmptyRecord == [k \in {} |-> Undef]

\* record[field]
Field(record, field) == IF field \in DOMAIN record THEN record[field] ELSE Undef

\* Collection.applyDefaults
applyDefaults(schema_, record) ==
  LET defaulted == {f \in DOMAIN schema_ :
                      Field(record, f) = Undef /\ schema_[f].default # Undef}
  IN [k \in DOMAIN record \cup defaulted |->
        IF k \in defaulted THEN schema_[k].default ELSE record[k]]

\* validateRecord: TRUE when it throws
validateRecord(record, schema_, isPartial) ==
  \/ \E key \in DOMAIN record : key \notin DOMAIN schema_
  \/ \E f \in DOMAIN schema_ :
       LET value == Field(record, f) IN
       IF value = Undef THEN ~isPartial
       ELSE CASE schema_[f].type = "string" -> TypeOf(value) # "string"
              [] schema_[f].type = "number" ->
                   TypeOf(value) # "number" \/ value.t = "NaN"
              [] schema_[f].type = "boolean" -> TypeOf(value) # "boolean"
              [] OTHER -> TypeOf(value) # "object" \/ value.t = "null"

\* Object.assign(existing, partial)
Assign(existing, partial) ==
  [k \in DOMAIN existing \cup DOMAIN partial |->
     IF k \in DOMAIN partial THEN partial[k] ELSE existing[k]]

\* Collection.toDocument; the memory-mode find can also yield `undefined`
toDocument(id, record) == [id |-> id, rec |-> record]
NoDocument == [id |-> 0, rec |-> EmptyRecord]

\* ------------------------------------------------------------------ JSON
\* JSON.parse(JSON.stringify(x)): a property whose value is undefined is
\* dropped, a number that is not finite becomes null.

JsonValue(val) ==
  IF val.t = "NaN" \/ val = Num(Infinity) THEN Null ELSE val

JsonRecord(record) ==
  [k \in {f \in DOMAIN record : record[f] # Undef} |-> JsonValue(record[k])]

JsonData(data_) ==
  [k \in 1..Len(data_) |-> [id |-> data_[k].id, rec |-> JsonRecord(data_[k].rec)]]

JsonEntries(entries) ==
  [k \in 1..Len(entries) |-> Entry(JsonValue(entries[k].value), entries[k].id)]

JsonSchema(schema_) ==
  [f \in DOMAIN schema_ |-> [schema_[f] EXCEPT !.default = JsonValue(@)]]

JsonMeta(meta) ==
  [schema |-> JsonSchema(meta.schema),
   indexes |-> [f \in DOMAIN meta.indexes |-> JsonEntries(meta.indexes[f])]]

\* ------------------------------------------------------------------ maps
\* A Map<id, record> (and the data artifact's JSON object) is the sequence
\* of its entries [id, rec] in insertion order.

MapHas(data_, id) == \E k \in 1..Len(data_) : data_[k].id = id

\* the position of id's entry, and data.get(id) for an id the map has
MapPos(data_, id) == CHOOSE k \in 1..Len(data_) : data_[k].id = id
MapGet(data_, id) == data_[MapPos(data_, id)].rec

\* data.set(id, record) for an id generateId has just made: a new entry
MapSet(data_, id, record) ==
  IF MapHas(data_, id)
  THEN [k \in 1..Len(data_) |->
          IF data_[k].id = id THEN [id |-> id, rec |-> record] ELSE data_[k]]
  ELSE Append(data_, [id |-> id, rec |-> record])

\* data.delete(id)
MapDelete(data_, id) ==
  IF MapHas(data_, id)
  THEN LET k == MapPos(data_, id) IN
       SubSeq(data_, 1, k - 1) \o SubSeq(data_, k + 1, Len(data_))
  ELSE data_

\* [...data.entries()].map(([id, record]) => this.toDocument(id, record))
Documents(data_) ==
  [k \in 1..Len(data_) |-> toDocument(data_[k].id, data_[k].rec)]

\* ------------------------------------------------------------------ storage
\* The FileAdapter's two artifacts of the collection, <name>.data.json and
\* <name>.meta.json, and the log of the adapter calls of the running
\* operation.  An artifact holds what JSON.parse reads back.

Absent == [exists |-> FALSE, content |-> <<>>]
Present(content) == [exists |-> TRUE, content |-> content]

Storage(dataArtifact, metaArtifact) ==
  [data |-> dataArtifact, meta |-> metaArtifact, log |-> <<>>]

Logged(fs, call) == [fs EXCEPT !.log = Append(@, call)]

\* FileAdapter.writeData
StorageWriteData(fs, data_) ==
  [Logged(fs, "writeData") EXCEPT !.data = Present(JsonData(data_))]

\* FileAdapter.writeMeta
StorageWriteMeta(fs, meta) ==
  [Logged(fs, "writeMeta") EXCEPT !.meta = Present(JsonMeta(meta))]

\* Collection.readData: the Map read from the data artifact
readData(fs) == IF fs.data.exists THEN fs.data.content ELSE <<>>

\* Collection.buildIndexes / Collection.initMemoryIndexes
buildIndexes(schema_) == [f \in IndexedFields(schema_) |-> <<>>]

\* Collection.buildMeta
buildMeta(schema_, indexes_) ==
  [schema |-> schema_,
   indexes |-> [f \in DOMAIN indexes_ |-> serialize(indexes_[f])]]

\* Collection.loadIndexesFromMeta
loadIndexesFromMeta(fs, schema_) ==
  IF ~fs.meta.exists THEN buildIndexes(schema_)
  ELSE [f \in IndexedFields(schema_) |->
          IF f \in DOMAIN fs.meta.content.indexes
          THEN fromEntries(fs.meta.content.indexes[f])
          ELSE <<>>]

\* A faulty schemasMatch that compares the indexSetting objects themselves
\* (`curr.indexSetting !== prev.indexSetting`): two objects are never the
\* same object, so only fields without indexSetting on both sides match.
schemasMatchIdentity(schema_, stored) ==
  /\ DOMAIN schema_ = DOMAIN stored
  /\ \A f \in DOMAIN schema_ :
       /\ schema_[f].type = stored[f].type
       /\ Truthy(schema_[f].index) = Truthy(stored[f].index)
       /\ ~schema_[f].hasSetting /\ ~stored[f].hasSetting

\* A faulty schemasMatch that leaves out the comparison of ignoreCase.
schemasMatchNoSetting(schema_, stored) ==
  /\ DOMAIN schema_ = DOMAIN stored
  /\ \A f \in DOMAIN schema_ :
       /\ schema_[f].type = stored[f].type
       /\ Truthy(schema_[f].index) = Truthy(stored[f].index)

\* Collection.schemasMatch
schemasMatch(schema_, stored) ==
  /\ DOMAIN schema_ = DOMAIN stored
  /\ \A f \in DOMAIN schema_ :
       /\ schema_[f].type = stored[f].type
       /\ Truthy(schema_[f].index) = Truthy(stored[f].index)
       /\ SettingIgnoreCase(schema_[f]) = SettingIgnoreCase(stored[f])

\* Collection.initFileMode
initFileMode(fs, schema_) ==
  LET fs1 == Logged(fs, "readMeta")
      reset == StorageWriteMeta(StorageWriteData(fs1, <<>>),
                                buildMeta(schema_, EmptyRecord))
  IN IF fs.meta.exists
     THEN IF ~schemasMatch(schema_, fs.meta.content.schema) THEN reset ELSE fs1
     ELSE reset

\* ------------------------------------------------------------------ indexing
\* The loops over the index map of add, addMany, update and remove.

\* for (const [field, index] of indexes) { if (val !== undefined) index.add }
AddToIndexes(indexes_, schema_, id, record) ==
  [f \in DOMAIN indexes_ |->
     IF Field(record, f) # Undef
     THEN IndexAdd(indexes_[f], IndexIgnoreCase(schema_[f]), id, record[f])
     ELSE indexes_[f]]

\* the loop of remove
RemoveFromIndexes(indexes_, schema_, id, existing) ==
  [f \in DOMAIN indexes_ |->
     IF Field(existing, f) # Undef
     THEN IndexRemove(indexes_[f], IndexIgnoreCase(schema_[f]), id, existing[f])
     ELSE indexes_[f]]

\* the loop of update
UpdateIndexes(indexes_, schema_, id, existing, partial) ==
  [f \in DOMAIN indexes_ |->
     LET newVal == Field(partial, f)
         oldVal == Field(existing, f)
         ic == IndexIgnoreCase(schema_[f])
         removed == IF oldVal # Undef
                    THEN IndexRemove(indexes_[f], ic, id, oldVal)
                    ELSE indexes_[f]
     IN IF newVal = Undef THEN indexes_[f]
        ELSE IndexAdd(removed, ic, id, newVal)]

RECURSIVE Dedupe(_)
\* [...new Set(ids)]
Dedupe(ids) ==
  IF ids = <<>> THEN <<>>
  ELSE LET front == Dedupe(SubSeq(ids, 1, Len(ids) - 1)) IN
       IF \E k \in 1..Len(front) : front[k] = ids[Len(ids)]
       THEN front ELSE Append(front, ids[Len(ids)])

\* for (const id of resultIds) if (!ids.has(id)) resultIds.delete(id)
Intersect(resultIds, ids) ==
  FilterIds([k \in 1..Len(resultIds) |-> [id |-> resultIds[k]]],
            [k \in 1..Len(resultIds) |->
               \E j \in 1..Len(ids) : ids[j] = resultIds[k]])

RECURSIVE FindLoopLenient(_, _, _, _, _)
\* A faulty find loop that answers a field without an index with the empty
\* result (`if (!index) return []`) instead of throwing.
FindLoopLenient(indexes_, schema_, query, k, resultIds) ==
  IF k > Len(query) THEN Found(resultIds)
  ELSE LET field == query[k][1] IN
       IF field \notin DOMAIN indexes_ THEN Found(<<>>)
       ELSE LET r == IndexFind(indexes_[field], schema_[field].type,
                               IndexIgnoreCase(schema_[field]), query[k][2])
                next == IF k = 1 THEN Dedupe(r.ids)
                        ELSE Intersect(resultIds, r.ids)
            IN IF r.err # "none" THEN r
               ELSE IF next = <<>> THEN Found(<<>>)
               ELSE FindLoopLenient(indexes_, schema_, query, k + 1, next)

RECURSIVE FindLoop(_, _, _, _, _)
\* the loop of Collection.find from the k-th query entry on; resultIds is
\* the running set, which is null at the first entry (k = 1)
FindLoop(indexes_, schema_, query, k, resultIds) ==
  IF k > Len(query) THEN Found(resultIds)
  ELSE LET field == query[k][1] IN
       IF field \notin DOMAIN indexes_ THEN Thrown("notindexed")
       ELSE LET r == IndexFind(indexes_[field], schema_[field].type,
                               IndexIgnoreCase(schema_[field]), query[k][2])
                next == IF k = 1 THEN Dedupe(r.ids)
                        ELSE Intersect(resultIds, r.ids)
            IN IF r.err # "none" THEN r
               ELSE IF next = <<>> THEN Found(<<>>)
               ELSE FindLoop(indexes_, schema_, query, k + 1, next)

\* the identifiers Collection.find resolves a non-empty query to
FindIds(indexes_, schema_, query) == FindLoop(indexes_, schema_, query, 1, <<>>)

\* ------------------------------------------------------------------ outcomes
\* What a call gives back: the documents returned (count: their number in n)
\* or the error thrown.

Ok(docs) == [err |-> "none", docs |-> docs, n |-> 0]
Err(err) == [err |-> err, docs |-> <<>>, n |-> 0]
Size(n) == [err |-> "none", docs |-> <<>>, n |-> n]

\* the pairs [generateId(), withDefaults] of addMany's validation loop
Validated(schema_, records, firstId) ==
  [k \in 1..Len(records) |->
     [id |-> firstId + k - 1, rec |-> applyDefaults(schema_, records[k])]]

\* the number of records of the batch validated before the first that throws
\* (all of them when none does)
ValidPrefix(schema_, records) ==
  LET bad == {k \in 1..Len(records) :
                validateRecord(applyDefaults(schema_, records[k]), schema_, FALSE)}
  IN IF bad = {} THEN Len(records)
     ELSE (CHOOSE k \in bad : \A j \in bad : k <= j) - 1

RECURSIVE InsertAll(_, _, _, _)
\* the loop of addMany over the validated pairs, on the data map and indexes
InsertAll(data_, indexes_, schema_, validated) ==
  IF validated = <<>> THEN [data |-> data_, indexes |-> indexes_]
  ELSE InsertAll(MapSet(data_, Head(validated).id, Head(validated).rec),
                 AddToIndexes(indexes_, schema_, Head(validated).id,
                              Head(validated).rec),
                 schema_, Tail(validated))

\* ------------------------------------------------------------------ memory mode
\* A memory-mode Collection is [data, indexes]; each operation yields the
\* Collection after it and the outcome.

Mem(data_, indexes_, out) == [data |-> data_, indexes |-> indexes_, out |-> out]

\* A faulty add that keeps one record per content: a record equal to a stored
\* one is not stored again, and the stored document is returned.
MemAddOnce(c, schema_, id, record) ==
  LET withDefaults == applyDefaults(schema_, record)
      Same(k) == c.data[k].rec = withDefaults
  IN IF validateRecord(withDefaults, schema_, FALSE)
     THEN Mem(c.data, c.indexes, Err("validation"))
     ELSE IF \E k \in 1..Len(c.data) : Same(k)
     THEN Mem(c.data, c.indexes,
              Ok(<<c.data[CHOOSE k \in 1..Len(c.data) : Same(k)]>>))
     ELSE Mem(MapSet(c.data, id, withDefaults),
              AddToIndexes(c.indexes, schema_, id, withDefaults),
              Ok(<<toDocument(id, withDefaults)>>))

MemAdd(c, schema_, id, record) ==
  LET withDefaults == applyDefaults(schema_, record) IN
  IF validateRecord(withDefaults, schema_, FALSE)
  THEN Mem(c.data, c.indexes, Err("validation"))
  ELSE Mem(MapSet(c.data, id, withDefaults),
           AddToIndexes(c.indexes, schema_, id, withDefaults),
           Ok(<<toDocument(id, withDefaults)>>))

RECURSIVE MemAddEach(_, _, _, _, _)
MemAddEach(c, schema_, id, records, docs) ==
  IF records = <<>> THEN Mem(c.data, c.indexes, Ok(docs))
  ELSE LET r == MemAdd(c, schema_, id, Head(records)) IN
       IF r.out.err # "none" THEN r
       ELSE MemAddEach(r, schema_, id + 1, Tail(records), docs \o r.out.docs)

\* A faulty addMany that validates each record inside the loop that stores
\* them, so that the records before an invalid one stay stored.
MemAddManyEager(c, schema_, firstId, records) ==
  MemAddEach(c, schema_, firstId, records, <<>>)

MemAddMany(c, schema_, firstId, records) ==
  LET validated == Validated(schema_, records, firstId)
      after == InsertAll(c.data, c.indexes, schema_, validated)
  IN IF ValidPrefix(schema_, records) < Len(records)
     THEN Mem(c.data, c.indexes, Err("validation"))
     ELSE Mem(after.data, after.indexes,
              Ok([k \in 1..Len(validated) |->
                    toDocument(validated[k].id, validated[k].rec)]))

MemGet(c, id) ==
  IF MapHas(c.data, id) THEN Ok(<<toDocument(id, MapGet(c.data, id))>>)
  ELSE Ok(<<>>)

MemAll(c) == Ok(Documents(c.data))

MemFind(c, schema_, query) ==
  IF query = <<>> THEN MemAll(c)
  ELSE LET r == FindIds(c.indexes, schema_, query) IN
       IF r.err # "none" THEN Err(r.err)
       ELSE Ok([k \in 1..Len(r.ids) |->
                  IF MapHas(c.data, r.ids[k])
                  THEN toDocument(r.ids[k], MapGet(c.data, r.ids[k]))
                  ELSE NoDocument])

MemUpdate(c, schema_, id, partial) ==
  IF validateRecord(partial, schema_, TRUE)
  THEN Mem(c.data, c.indexes, Err("validation"))
  ELSE IF ~MapHas(c.data, id) THEN Mem(c.data, c.indexes, Err("notfound"))
  ELSE LET existing == MapGet(c.data, id)
           merged == Assign(existing, partial)
       IN Mem(MapSet(c.data, id, merged),
              UpdateIndexes(c.indexes, schema_, id, existing, partial),
              Ok(<<toDocument(id, merged)>>))

MemRemove(c, schema_, id) ==
  IF ~MapHas(c.data, id) THEN Mem(c.data, c.indexes, Err("notfound"))
  ELSE Mem(MapDelete(c.data, id),
           RemoveFromIndexes(c.indexes, schema_, id, MapGet(c.data, id)),
           Ok(<<>>))

\* A faulty clear that empties the record map and leaves the indexes alone.
MemClearData(c) == Mem(<<>>, c.indexes, Ok(<<>>))

MemClear(c) == Mem(<<>>, [f \in DOMAIN c.indexes |-> <<>>], Ok(<<>>))

MemCount(c) == Size(Len(c.data))

\* ------------------------------------------------------------------ file mode
\* A file-mode Collection keeps nothing in process: each operation works on
\* the storage fs and yields the storage after it and the outcome.

File(fs, out) == [fs |-> fs, out |-> out]

FileAdd(fs, schema_, id, record) ==
  LET withDefaults == applyDefaults(schema_, record)
      data_ == MapSet(readData(fs), id, withDefaults)
      fs1 == StorageWriteData(Logged(fs, "readData"), data_)
      indexes_ == AddToIndexes(loadIndexesFromMeta(fs1, schema_), schema_, id,
                               withDefaults)
      fs2 == StorageWriteMeta(Logged(fs1, "readMeta"), buildMeta(schema_, indexes_))
  IN IF validateRecord(withDefaults, schema_, FALSE)
     THEN File(fs, Err("validation"))
     ELSE File(fs2, Ok(<<toDocument(id, withDefaults)>>))

RECURSIVE FileAddEach(_, _, _, _, _)
FileAddEach(fs, schema_, id, records, docs) ==
  IF records = <<>> THEN File(fs, Ok(docs))
  ELSE LET r == FileAdd(fs, schema_, id, Head(records)) IN
       FileAddEach(r.fs, schema_, id + 1, Tail(records), docs \o r.out.docs)

\* A faulty addMany that, after validating the batch, stores each record as
\* add does: one read and one write of each artifact per record.
FileAddManyEach(fs, schema_, firstId, records) ==
  IF ValidPrefix(schema_, records) < Len(records)
  THEN File(fs, Err("validation"))
  ELSE FileAddEach(fs, schema_, firstId, records, <<>>)

FileAddMany(fs, schema_, firstId, records) ==
  LET validated == Validated(schema_, records, firstId)
      fs1 == Logged(Logged(fs, "readData"), "readMeta")
      after == InsertAll(readData(fs), loadIndexesFromMeta(fs, schema_), schema_,
                         validated)
      fs2 == StorageWriteMeta(StorageWriteData(fs1, after.data),
                              buildMeta(schema_, after.indexes))
  IN IF ValidPrefix(schema_, records) < Len(records)
     THEN File(fs, Err("validation"))
     ELSE File(fs2, Ok([k \in 1..Len(validated) |->
                          toDocument(validated[k].id, validated[k].rec)]))

FileGet(fs, id) ==
  LET data_ == readData(fs) IN
  File(Logged(fs, "readData"),
       IF MapHas(data_, id) THEN Ok(<<toDocument(id, MapGet(data_, id))>>)
       ELSE Ok(<<>>))

FileAll(fs) == File(Logged(fs, "readData"), Ok(Documents(readData(fs))))

\* A faulty find that writes the record map it has read back to the adapter.
FileFindSaving(fs, schema_, query) ==
  File(StorageWriteData(Logged(fs, "readData"), readData(fs)),
       Ok(Documents(readData(fs))))

FileFind(fs, schema_, query) ==
  IF query = <<>> THEN FileAll(fs)
  ELSE LET r == FindIds(loadIndexesFromMeta(fs, schema_), schema_, query)
           fs1 == Logged(fs, "readMeta")
           data_ == readData(fs1)
       IN IF r.err # "none" THEN File(fs1, Err(r.err))
          ELSE IF r.ids = <<>> THEN File(fs1, Ok(<<>>))
          ELSE File(Logged(fs1, "readData"),
                    Ok([k \in 1..Len(r.ids) |->
                          IF MapHas(data_, r.ids[k])
                          THEN toDocument(r.ids[k], MapGet(data_, r.ids[k]))
                          ELSE toDocument(r.ids[k], EmptyRecord)]))

FileUpdate(fs, schema_, id, partial) ==
  LET data_ == readData(fs)
      fs1 == Logged(fs, "readData")
      existing == MapGet(data_, id)
      indexes_ == UpdateIndexes(loadIndexesFromMeta(fs1, schema_), schema_, id,
                                existing, partial)
      merged == Assign(existing, partial)
      fs2 == StorageWriteMeta(
               StorageWriteData(Logged(fs1, "readMeta"), MapSet(data_, id, merged)),
               buildMeta(schema_, indexes_))
  IN IF validateRecord(partial, schema_, TRUE) THEN File(fs, Err("validation"))
     ELSE IF ~MapHas(data_, id) THEN File(fs1, Err("notfound"))
     ELSE File(fs2, Ok(<<toDocument(id, merged)>>))

FileRemove(fs, schema_, id) ==
  LET data_ == readData(fs)
      fs1 == Logged(fs, "readData")
      indexes_ == RemoveFromIndexes(loadIndexesFromMeta(fs1, schema_), schema_, id,
                                    MapGet(data_, id))
      fs2 == StorageWriteMeta(
               StorageWriteData(Logged(fs1, "readMeta"), MapDelete(data_, id)),
               buildMeta(schema_, indexes_))
  IN IF ~MapHas(data_, id) THEN File(fs1, Err("notfound"))
     ELSE File(fs2, Ok(<<>>))

FileClear(fs, schema_) ==
  File(StorageWriteMeta(StorageWriteData(fs, <<>>), buildMeta(schema_, EmptyRecord)),
       Ok(<<>>))

FileCount(fs) == File(Logged(fs, "readData"), Size(Len(readData(fs))))

\* ------------------------------------------------------------------ inputs

\* the schema of the repository's Collection tests: name indexed and
\* case-insensitive, age indexed, sex not indexed
SchemaA ==
  [name |-> FieldDef("string", Bool(TRUE), TRUE, Bool(TRUE), Undef),
   age |-> FieldDef("number", Bool(TRUE), FALSE, Undef, Undef),
   sex |-> FieldDef("string", Undef, FALSE, Undef, Undef)]
\* SchemaA with one thing changed: name without indexSetting, age not
\* indexed, age a string, no field sex
SchemaB == [SchemaA EXCEPT !.name = FieldDef("string", Bool(TRUE), FALSE, Undef, Undef)]
SchemaC == [SchemaA EXCEPT !.age = FieldDef("number", Undef, FALSE, Undef, Undef)]
SchemaD == [SchemaA EXCEPT !.age = FieldDef("string", Bool(TRUE), FALSE, Undef, Undef)]
SchemaE == [f \in {"name", "age"} |-> SchemaA[f]]
Schemas == {SchemaA, SchemaB, SchemaC, SchemaD, SchemaE}

Names == {<<Ch.a>>, <<Ch.A>>}
Ages == {1, Infinity}

\* the records SchemaA accepts
ValidRecords ==
  {[name |-> Str(s), age |-> Num(k), sex |-> Str(<<Ch.a>>)] : s \in Names, k \in Ages}
\* records SchemaA rejects: a missing field, a wrong type, an unknown field
InvalidRecords ==
  { [name |-> Str(<<Ch.a>>), age |-> Num(1)],
    [name |-> Str(<<Ch.a>>), sex |-> Str(<<Ch.a>>)],
    [name |-> Str(<<Ch.a>>), age |-> Str(<<Ch.a>>), sex |-> Str(<<Ch.a>>)],
    [name |-> Str(<<Ch.a>>), age |-> Num(1), sex |-> Str(<<Ch.a>>),
     zip |-> Str(<<Ch.a>>)] }
InputRecords == ValidRecords \cup InvalidRecords

\* the records batches are made of: two that SchemaA accepts, one it rejects
BatchRecords ==
  { [name |-> Str(<<Ch.a>>), age |-> Num(1), sex |-> Str(<<Ch.a>>)],
    [name |-> Str(<<Ch.A>>), age |-> Num(Infinity), sex |-> Str(<<Ch.a>>)],
    [name |-> Str(<<Ch.a>>), age |-> Num(1)] }
Batches == UNION {[1..k -> BatchRecords] : k \in 0..MaxBatch}

Partials ==
  { EmptyRecord,
    [name |-> Str(<<Ch.a>>)], [name |-> Str(<<Ch.A>>)], [name |-> Undef],
    [age |-> Num(1)], [age |-> Num(Infinity)],
    [zip |-> Str(<<Ch.a>>)] }

\* a query is the sequence of its entries <<field, pattern>>
Queries ==
  { <<>>,
    << <<"name", <<Ch.a>> >> >>,
    << <<"name", <<Ch.A>> >> >>,
    << <<"name", <<Ch.a, Ch.pct>> >> >>,
    << <<"age", <<Ch.one>> >> >>,
    << <<"age", InfinityLiteral>> >>,
    << <<"age", <<Ch.a>> >> >>,
    << <<"name", <<Ch.a>> >>, <<"age", <<Ch.one>> >> >>,
    << <<"name", <<Ch.a>> >>, <<"sex", <<Ch.a>> >> >>,
    << <<"sex", <<Ch.a>> >>, <<"name", <<Ch.a>> >> >>,
    << <<"sex", <<Ch.a>> >> >>,
    << <<"zip", <<Ch.a>> >> >> }

Ids == 1..MaxIds

\* ------------------------------------------------------------------ state

VARIABLES
  schema,    \* the schema both Collections were constructed with
  data,      \* memory mode: Collection.data
  indexes,   \* memory mode: Collection.indexes
  dataFile,  \* file mode: the data artifact
  metaFile,  \* file mode: the meta artifact
  nextId,    \* the next identifier generateId() returns
  paired,    \* both Collections were constructed on empty state
  last       \* the last call: its name, the identifiers it generated, both
             \* outcomes (of a call that changes state) and its adapter calls

vars == <<schema, data, indexes, dataFile, metaFile, nextId, paired, last>>

mem == [data |-> data, indexes |-> indexes]
disk == Storage(dataFile, metaFile)

Call(op, made, m, f) ==
  [op |-> op, made |-> made, mem |-> m.out, file |-> f.out, log |-> f.fs.log]

\* createDB without and with a path, on a path that holds no artifacts
Init ==
  /\ schema = SchemaA
  /\ data = <<>>
  /\ indexes = buildIndexes(schema)
  /\ LET fs == initFileMode(Storage(Absent, Absent), schema) IN
       /\ dataFile = fs.data
       /\ metaFile = fs.meta
       /\ last = [op |-> "construct", made |-> 0, mem |-> Ok(<<>>),
                  file |-> Ok(<<>>), log |-> fs.log]
  /\ nextId = 1
  /\ paired = TRUE

\* what a mutating call leaves behind
Mutated(m, f) ==
  /\ data' = m.data
  /\ indexes' = m.indexes
  /\ dataFile' = f.fs.data
  /\ metaFile' = f.fs.meta

Add(record) ==
  LET m == MemAdd(mem, schema, nextId, record)
      f == FileAdd(disk, schema, nextId, record)
  IN /\ m.out.err = "none" => nextId <= MaxIds
     /\ Mutated(m, f)
     /\ nextId' = IF m.out.err = "none" THEN nextId + 1 ELSE nextId
     /\ last' = Call("add", IF m.out.err = "none" THEN 1 ELSE 0, m, f)
     /\ UNCHANGED <<schema, paired>>

AddMany(records) ==
  LET m == MemAddMany(mem, schema, nextId, records)
      f == FileAddMany(disk, schema, nextId, records)
      made == ValidPrefix(schema, records)
  IN /\ nextId + made - 1 <= MaxIds
     /\ Mutated(m, f)
     /\ nextId' = nextId + made
     /\ last' = Call("addMany", made, m, f)
     /\ UNCHANGED <<schema, paired>>

Update(id, partial) ==
  LET m == MemUpdate(mem, schema, id, partial)
      f == FileUpdate(disk, schema, id, partial)
  IN /\ \A g \in DOMAIN m.indexes : Len(m.indexes[g]) <= MaxIds
     /\ \A g \in DOMAIN f.fs.meta.content.indexes :
          Len(f.fs.meta.content.indexes[g]) <= MaxIds
     /\ Mutated(m, f)
     /\ last' = Call("update", 0, m, f)
     /\ UNCHANGED <<schema, nextId, paired>>

Remove(id) ==
  LET m == MemRemove(mem, schema, id)
      f == FileRemove(disk, schema, id)
  IN /\ Mutated(m, f)
     /\ last' = Call("remove", 0, m, f)
     /\ UNCHANGED <<schema, nextId, paired>>

Clear ==
  LET m == MemClear(mem)
      f == FileClear(disk, schema)
  IN /\ Mutated(m, f)
     /\ last' = Call("clear", 0, m, f)
     /\ UNCHANGED <<schema, nextId, paired>>

\* The calls that only read.  What they return is a function of the state
\* and the arguments (MemGet, FileGet, ...); the state keeps the call's name
\* and its adapter calls.
Read(op, f) ==
  /\ last' = [op |-> op, made |-> 0, mem |-> Ok(<<>>), file |-> Ok(<<>>),
              log |-> f.fs.log]
  /\ dataFile' = f.fs.data
  /\ metaFile' = f.fs.meta
  /\ UNCHANGED <<schema, data, indexes, nextId, paired>>

Get(id) == Read("get", FileGet(disk, id))

All == Read("all", FileAll(disk))

Find(query) == Read("find", FileFind(disk, schema, query))

Count == Read("count", FileCount(disk))

\* createDB again: a new memory-mode Collection on a new MemoryAdapter, and a
\* new file-mode Collection on the same path
Construct(schema_) ==
  LET fs == initFileMode(disk, schema_) IN
  /\ schema' = schema_
  /\ data' = <<>>
  /\ indexes' = buildIndexes(schema_)
  /\ dataFile' = fs.data
  /\ metaFile' = fs.meta
  /\ paired' = /\ fs.data.content = <<>>
               /\ \A g \in DOMAIN fs.meta.content.indexes :
                    fs.meta.content.indexes[g] = <<>>
  /\ last' = [op |-> "construct", made |-> 0, mem |-> Ok(<<>>),
              file |-> Ok(<<>>), log |-> fs.log]
  /\ UNCHANGED nextId

Next ==
  \/ \E record \in InputRecords : Add(record)
  \/ \E records \in Batches : AddMany(records)
  \/ \E id \in Ids, partial \in Partials : Update(id, partial)
  \/ \E id \in Ids : Remove(id)
  \/ Clear
  \/ \E id \in Ids : Get(id)
  \/ All
  \/ \E query \in Queries : Find(query)
  \/ Count

Spec == Init /\ [][Next]_vars

\* The calls that change state, and a Collection constructed again at any
\* point with any of the schemas.
NextReopen ==
  \/ \E record \in InputRecords : Add(record)
  \/ \E records \in Batches : AddMany(records)
  \/ \E id \in Ids, partial \in Partials : Update(id, partial)
  \/ \E id \in Ids : Remove(id)
  \/ Clear
  \/ \E schema_ \in Schemas : Construct(schema_)

SpecReopen == Init /\ [][NextReopen]_vars

\* ------------------------------------------------------------------ observers
\* What the claims read off a state.

RECURSIVE Digits(_)
\* String(k) for a natural number k
Digits(k) ==
  IF k < 10 THEN <<Ch.zero + k>>
  ELSE Digits(k \div 10) \o <<Ch.zero + (k % 10)>>

\* the query string that asks for exactly the value val
ExactQueryFor(val) ==
  IF val.t = "string" THEN val.v
  ELSE IF val = Num(Infinity) THEN InfinityLiteral
  ELSE Digits(val.v[1])

\* the values a field of the given type takes in the model's inputs
ValuesOf(type) ==
  IF type = "string" THEN {Str(s) : s \in Names} ELSE {Num(k) : k \in Ages}

\* the file-mode Collection's view of its storage
fileData == readData(disk)
fileIndexes == loadIndexesFromMeta(disk, schema)

IdsOf(docs) == {docs[k].id : k \in 1..Len(docs)}
StoredIds(data_) == {data_[k].id : k \in 1..Len(data_)}

\* the stored identifiers whose field equals val, after case folding when the
\* field's index is case-insensitive
IdsWithValue(data_, field, val) ==
  LET ic == IndexIgnoreCase(schema[field]) IN
  {id \in StoredIds(data_) :
     /\ Field(MapGet(data_, id), field) # Undef
     /\ normalize(ic, MapGet(data_, id)[field]) = normalize(ic, val)}

SameRecord(r1, r2) ==
  \A k \in DOMAIN r1 \cup DOMAIN r2 : Field(r1, k) = Field(r2, k)

SameDocs(d1, d2) ==
  /\ Len(d1) = Len(d2)
  /\ \A k \in 1..Len(d1) : d1[k].id = d2[k].id /\ SameRecord(d1[k].rec, d2[k].rec)

SameOutcome(o1, o2) ==
  o1.err = o2.err /\ o1.n = o2.n /\ SameDocs(o1.docs, o2.docs)

Writes(log) == {k \in 1..Len(log) : log[k] \in {"writeData", "writeMeta"}}
CountOf(log, call) == Cardinality({k \in 1..Len(log) : log[k] = call})

\* ------------------------------------------------------------------ claims

\* C1: in both modes, for every indexed field F and every value v, the find
\* with the exact query for v returns exactly the documents of the stored
\* identifiers whose F equals v (case-folded on a case-insensitive field).
ExactFindIn(findOut, data_, field, val) ==
  /\ findOut.err = "none"
  /\ IdsOf(findOut.docs) = IdsWithValue(data_, field, val)
  /\ \A k \in 1..Len(findOut.docs) :
       /\ MapHas(data_, findOut.docs[k].id)
       /\ findOut.docs[k] = toDocument(findOut.docs[k].id,
                                       MapGet(data_, findOut.docs[k].id))

C1_ExactFind ==
  \A field \in IndexedFields(schema) :
    \A val \in ValuesOf(schema[field].type) :
      LET query == << <<field, ExactQueryFor(val)>> >> IN
      /\ ExactFindIn(MemFind(mem, schema, query), data, field, val)
      /\ ExactFindIn(FileFind(disk, schema, query).out, fileData, field, val)

\* C2: in every state, in both modes, each index holds exactly one entry
\* (normalize(record[F]), id) per stored record whose F is defined, and no
\* other entry.
IndexMatchesData(indexes_, data_) ==
  \A field \in DOMAIN indexes_ :
    LET defined == {k \in 1..Len(data_) : Field(data_[k].rec, field) # Undef}
        ic == IndexIgnoreCase(schema[field])
    IN /\ Len(indexes_[field]) = Cardinality(defined)
       /\ \A k \in defined :
            \E j \in 1..Len(indexes_[field]) :
               indexes_[field][j] =
                 Entry(normalize(ic, data_[k].rec[field]), data_[k].id)

C2_IndexMatchesData ==
  /\ IndexMatchesData(indexes, data)
  /\ IndexMatchesData(fileIndexes, fileData)

\* C3: for every record R that passes validation, add(R) returns R plus the
\* assigned _id, and so does every get of that _id until the record is
\* updated, removed or cleared; in both modes.
C3_AddThenGet ==
  [][/\ \A record \in InputRecords :
          (Add(record) /\ last'.mem.err = "none") =>
             LET doc == <<toDocument(nextId, record)>> IN
             /\ last'.file.err = "none"
             /\ SameDocs(last'.mem.docs, doc)
             /\ SameDocs(last'.file.docs, doc)
             /\ SameDocs(MemGet(mem', nextId).docs, doc)
             /\ SameDocs(FileGet(disk', nextId).out.docs, doc)
     /\ \A id \in Ids :
          (/\ MapHas(data, id)
           /\ ~ \E partial \in Partials : Update(id, partial)
           /\ ~ Remove(id)
           /\ ~ Clear) =>
             /\ MemGet(mem', id) = MemGet(mem, id)
             /\ FileGet(disk', id).out = FileGet(disk, id).out
    ]_vars

\* C4: an add, addMany, update or remove that fails (validation, or the
\* identifier not found) leaves the records, every index and both artifacts
\* as they were and writes nothing to storage; an addMany with an invalid
\* record at any position stores none of its records.
Failed(out) == out.err \in {"validation", "notfound"}

C4_FailedCallChangesNothing ==
  [][(/\ last'.op \in {"add", "addMany", "update", "remove"}
      /\ Failed(last'.mem) \/ Failed(last'.file)) =>
        /\ UNCHANGED <<data, indexes, dataFile, metaFile>>
        /\ Writes(last'.log) = {}
    ]_vars

\* a batch whose second record is invalid has failed on a collection that
\* holds a record
C4_Witness ==
  /\ last.op = "addMany"
  /\ last.mem.err = "validation"
  /\ last.file.err = "validation"
  /\ last.made >= 1
  /\ Len(data) >= 1
  /\ Len(fileData) >= 1

\* C7: a memory-mode and a file-mode collection with the same schema, given
\* the same calls, have the same outcome at every step: the same error, the
\* same count, the same documents.
C7_ModesAgree ==
  paired =>
    /\ SameOutcome(last.mem, last.file)
    /\ SameOutcome(MemCount(mem), FileCount(disk).out)
    /\ SameOutcome(MemAll(mem), FileAll(disk).out)
    /\ \A id \in Ids : SameOutcome(MemGet(mem, id), FileGet(disk, id).out)
    /\ \A query \in Queries :
         SameOutcome(MemFind(mem, schema, query), FileFind(disk, schema, query).out)

\* C8: in file mode a successful addMany of any size, the empty batch
\* included, writes the data artifact once and the meta artifact once, and
\* so does each successful add.
C8_OneWritePerCall ==
  (last.op \in {"add", "addMany"} /\ last.file.err = "none") =>
     /\ CountOf(last.log, "writeData") = 1
     /\ CountOf(last.log, "writeMeta") = 1

\* an addMany of more than one record has succeeded
C8_Witness ==
  /\ last.op = "addMany"
  /\ last.file.err = "none"
  /\ Len(last.file.docs) > 1

RECURSIVE MemAddAll(_, _, _, _)
\* add(r1), ..., add(rn) on a memory-mode Collection
MemAddAll(c, schema_, firstId, records) ==
  IF records = <<>> THEN c
  ELSE MemAddAll(MemAdd(c, schema_, firstId, Head(records)), schema_,
                 firstId + 1, Tail(records))

RECURSIVE FileAddAll(_, _, _, _)
\* add(r1), ..., add(rn) on a file-mode Collection
FileAddAll(fs, schema_, firstId, records) ==
  IF records = <<>> THEN fs
  ELSE FileAddAll(FileAdd(fs, schema_, firstId, Head(records)).fs, schema_,
                  firstId + 1, Tail(records))

\* C9: addMany([r1..rn]) of records that all pass validation leaves the same
\* records, the same index contents and the same artifacts as add(r1), ...,
\* add(rn) from the same state.  The artifacts are compared as the
\* Collection reads them back, so that a meta artifact without an entry
\* sequence for a field and one with an empty sequence count as the same.
C9_AddManyAsAdds ==
  [][\A records \in Batches :
       (AddMany(records) /\ last'.mem.err = "none") =>
          LET m == MemAddAll(mem, schema, nextId, records)
              f == FileAddAll(disk, schema, nextId, records)
          IN /\ data' = m.data
             /\ indexes' = m.indexes
             /\ readData(disk') = readData(f)
             /\ loadIndexesFromMeta(disk', schema) = loadIndexesFromMeta(f, schema)
             /\ metaFile'.content.schema = f.meta.content.schema
    ]_vars

\* C10: find(query) returns exactly the documents of the stored records
\* whose identifier is in the index lookup of every queried field, each at
\* most once; find of the empty query returns what all() returns.
FindIsIntersection(findOut, allOut, indexes_, data_, query) ==
  LET lookup(k) ==
        IndexFind(indexes_[query[k][1]], schema[query[k][1]].type,
                  IndexIgnoreCase(schema[query[k][1]]), query[k][2])
      answered ==
        \A k \in 1..Len(query) :
           query[k][1] \in DOMAIN indexes_ /\ lookup(k).err = "none"
      hits == {id \in StoredIds(data_) :
                 \A k \in 1..Len(query) :
                    \E j \in 1..Len(lookup(k).ids) : lookup(k).ids[j] = id}
  IN /\ query = <<>> => findOut = allOut
     /\ (query # <<>> /\ answered) =>
          /\ findOut.err = "none"
          /\ IdsOf(findOut.docs) = hits
          /\ \A k \in 1..Len(findOut.docs) :
               /\ MapHas(data_, findOut.docs[k].id)
               /\ findOut.docs[k] = toDocument(findOut.docs[k].id,
                                               MapGet(data_, findOut.docs[k].id))
               /\ \A j \in 1..Len(findOut.docs) :
                    findOut.docs[j].id = findOut.docs[k].id => j = k

C10_FindIsIntersection ==
  \A query \in Queries :
    /\ FindIsIntersection(MemFind(mem, schema, query), MemAll(mem), indexes,
                          data, query)
    /\ FindIsIntersection(FileFind(disk, schema, query).out, FileAll(disk).out,
                          fileIndexes, fileData, query)

\* what a file-mode Collection with the schema schema_ answers on the
\* storage fs: count, all(), get of every identifier, find of every query
FileView(fs, schema_) ==
  [count |-> FileCount(fs).out,
   all |-> FileAll(fs).out,
   get |-> [id \in Ids |-> FileGet(fs, id).out],
   find |-> [query \in Queries |-> FileFind(fs, schema_, query).out]]

\* C5: in file mode, a second instance constructed on the same path with an
\* identical schema answers count, get of every id, all() and find of every
\* query as the first instance did.
C5_ReopenSameSchema ==
  [][Construct(schema) => FileView(disk', schema') = FileView(disk, schema)]_vars

\* a Collection has been constructed on a path that holds records
C5_Witness ==
  /\ last.op = "construct"
  /\ Len(fileData) = MaxIds
  /\ \E field \in DOMAIN fileIndexes : Len(fileIndexes[field]) = MaxIds

\* the schemas differ in the set of field names, or in a field's type,
\* indexed flag or case folding
SchemaDiffers(schema_, stored) ==
  \/ DOMAIN schema_ # DOMAIN stored
  \/ \E f \in DOMAIN schema_ \cap DOMAIN stored :
       \/ schema_[f].type # stored[f].type
       \/ Truthy(schema_[f].index) # Truthy(stored[f].index)
       \/ IndexIgnoreCase(schema_[f]) # IndexIgnoreCase(stored[f])

\* C6: constructing a file-mode collection whose persisted schema differs
\* from the given one in the field names or in a field's type, indexed flag
\* or case folding resets both artifacts: count is 0, all() is empty and no
\* find returns a document.
C6_ReopenOtherSchema ==
  [][\A schema_ \in Schemas :
       (/\ Construct(schema_)
        /\ metaFile.exists
        /\ SchemaDiffers(schema_, metaFile.content.schema)) =>
          /\ FileCount(disk').out = Size(0)
          /\ FileAll(disk').out = Ok(<<>>)
          /\ \A query \in Queries : FileFind(disk', schema', query).out.docs = <<>>
          /\ dataFile'.content = <<>>
          /\ \A field \in DOMAIN metaFile'.content.indexes :
               metaFile'.content.indexes[field] = <<>>
    ]_vars

\* a Collection has been constructed with another schema than the one
\* before, after records were added, and has reset the artifacts
C6_Witness ==
  /\ last.op = "construct"
  /\ last.log = <<"readMeta", "writeData", "writeMeta">>
  /\ schema # SchemaA
  /\ nextId > MaxIds

\* ---- find on a field without an index

\* the positions of the query's fields that have no index
Unindexed(query) ==
  {k \in 1..Len(query) : query[k][1] \notin IndexedFields(schema)}

PrefixHits(indexes_, query, n) ==
  {id \in Ids :
     \A j \in 1..n :
        LET r == IndexFind(indexes_[query[j][1]], schema[query[j][1]].type,
                           IndexIgnoreCase(schema[query[j][1]]), query[j][2])
        IN r.err = "none" /\ \E i \in 1..Len(r.ids) : r.ids[i] = id}

\* find reaches the first field without an index: it is the first field of
\* the query, or the lookups of the fields before it have an identifier in
\* common
ReachesUnindexed(indexes_, query) ==
  LET k == CHOOSE k \in Unindexed(query) : \A j \in Unindexed(query) : k <= j
  IN k = 1 \/ PrefixHits(indexes_, query, k - 1) # {}

IndexSchemas ==
  { [word |-> FieldDef("string", Bool(TRUE), TRUE, Bool(TRUE), Undef)],
    [tag |-> FieldDef("string", Bool(TRUE), FALSE, Undef, Undef)],
    [num |-> FieldDef("number", Bool(TRUE), FALSE, Undef, Undef)],
    [flag |-> FieldDef("boolean", Bool(TRUE), FALSE, Undef, Undef)] }

\* the strings, numbers and booleans passed to Index.add
Words == { <<Ch.a>>, <<Ch.A>>, <<Ch.a, Ch.b>>, <<Ch.A, Ch.b>>, <<Ch.b, Ch.a>> }
Numbers == {0, 1, 2, Infinity}

IndexValues(type) ==
  IF type = "string" THEN {Str(w) : w \in Words}
  ELSE IF type = "number" THEN {Num(k) : k \in Numbers}
  ELSE {Bool(TRUE), Bool(FALSE)}

IndexIds == 1..MaxIndexIds

\* the terms of the string patterns, and the patterns: exact, prefix,
\* suffix, contains
Terms == { <<>>, <<Ch.a>>, <<Ch.A>>, <<Ch.b>>, <<Ch.a, Ch.b>>, <<Ch.A, Ch.b>>,
           <<Ch.b, Ch.a>>, <<Ch.B>> }
StringQueries ==
  UNION { {t, t \o <<Ch.pct>>, <<Ch.pct>> \o t, <<Ch.pct>> \o t \o <<Ch.pct>>} :
          t \in Terms }

\* the range operators, the number literals and the number queries; the
\* last ones are not of the form literal or operator-literal
Operators == { <<Ch.gt>>, <<Ch.gt, Ch.eq>>, <<Ch.lt>>, <<Ch.lt, Ch.eq>> }
Literals == { <<Ch.zero>>, <<Ch.one>>, <<Ch.zero + 2>>, InfinityLiteral }
NumberQueries ==
  Literals \cup {op \o lit : op \in Operators, lit \in Literals}
  \cup Operators
  \cup { <<>>, <<Ch.sp>>, <<Ch.gt, Ch.sp>>, <<Ch.lt, Ch.eq, Ch.sp>>, <<Ch.a>>,
         <<Ch.gt, Ch.a>>, <<Ch.one, Ch.a>>, <<Ch.eq, Ch.one>> }

True == <<Ch.t, Ch.r, Ch.u, Ch.e>>
False == <<Ch.f, Ch.a, Ch.l, Ch.s, Ch.e>>
BooleanQueries ==
  { True, False, <<Ch.T, Ch.r, Ch.u, Ch.e>>, <<>>, <<Ch.one>>, <<Ch.zero>>,
    True \o <<Ch.sp>>, <<Ch.t>> }

IndexQueries(type) ==
  IF type = "string" THEN StringQueries
  ELSE IF type = "number" THEN NumberQueries
  ELSE BooleanQueries

\* the Index of the behaviour: its field, type, ignoreCase flag and entry sequence
ixField == CHOOSE f \in DOMAIN schema : TRUE
ixType == schema[ixField].type
ixIgnoreCase == IndexIgnoreCase(schema[ixField])
ixEntries == indexes[ixField]

InitIndex ==
  /\ schema \in IndexSchemas
  /\ indexes = buildIndexes(schema)
  /\ data = <<>>
  /\ dataFile = Absent
  /\ metaFile = Absent
  /\ nextId = 1
  /\ paired = TRUE
  /\ last = [op |-> "new", made |-> 0, mem |-> Ok(<<>>), file |-> Ok(<<>>),
             log |-> <<>>]

IndexStep(op, entries_) ==
  /\ indexes' = [indexes EXCEPT ![ixField] = entries_]
  /\ last' = [last EXCEPT !.op = op]
  /\ UNCHANGED <<schema, data, dataFile, metaFile, nextId, paired>>

IndexAddStep(id, value) ==
  /\ Len(ixEntries) < MaxEntries
  /\ IndexStep("add", IndexAdd(ixEntries, ixIgnoreCase, id, value))

IndexRemoveStep(id, value) ==
  IndexStep("remove", IndexRemove(ixEntries, ixIgnoreCase, id, value))

IndexClearStep == IndexStep("clear", <<>>)

IndexFindStep(query) ==
  /\ IndexFind(ixEntries, ixType, ixIgnoreCase, query).err \in {"none", "syntax"}
  /\ IndexStep("find", ixEntries)

NextIndex ==
  \/ \E id \in IndexIds, value \in IndexValues(ixType) : IndexAddStep(id, value)
  \/ \E id \in IndexIds, value \in IndexValues(ixType) : IndexRemoveStep(id, value)
  \/ IndexClearStep
  \/ \E query \in IndexQueries(ixType) : IndexFindStep(query)

SpecIndex == InitIndex /\ [][NextIndex]_vars

\* ---- the queries of one Index

\* the literal of the number k
Lit(k) == IF k = Infinity THEN InfinityLiteral ELSE Digits(k)

Occurrences(ids, id) == Cardinality({k \in 1..Len(ids) : ids[k] = id})

\* the outcome is a list of ids that has each id once per entry selected by
\* the mask, and no other id
ReturnsEntries(out, mask) ==
  /\ out.err = "none"
  /\ \A id \in IndexIds :
       Occurrences(out.ids, id) =
         Cardinality({k \in 1..Len(ixEntries) : mask[k] /\ ixEntries[k].id = id})
  /\ \A k \in 1..Len(out.ids) : out.ids[k] \in IndexIds

\* C12: on a number index holding any entries, for every target t, '>t'
\* returns exactly the ids of the entries with value > t, '>=t' those with
\* value >= t, '<t' those with value < t, '<=t' those with value <= t and
\* 't' those with value = t, an id once per entry.
C12_RangeQueries ==
  ixType = "number" =>
    \A t \in Numbers :
      LET find(q) == IndexFind(ixEntries, ixType, ixIgnoreCase, q)
          value(k) == ixEntries[k].value.v[1]
          all == 1..Len(ixEntries)
      IN /\ ReturnsEntries(find(<<Ch.gt>> \o Lit(t)), [k \in all |-> value(k) > t])
         /\ ReturnsEntries(find(<<Ch.gt, Ch.eq>> \o Lit(t)), [k \in all |-> value(k) >= t])
         /\ ReturnsEntries(find(<<Ch.lt>> \o Lit(t)), [k \in all |-> value(k) < t])
         /\ ReturnsEntries(find(<<Ch.lt, Ch.eq>> \o Lit(t)), [k \in all |-> value(k) <= t])
         /\ ReturnsEntries(find(Lit(t)), [k \in all |-> value(k) = t])

\* find was called on a full number index that holds a value twice, under
\* different ids, and another value
C12_Witness ==
  /\ ixType = "number"
  /\ last.op = "find"
  /\ Len(ixEntries) = MaxEntries
  /\ \E j, k \in 1..Len(ixEntries) :
       /\ ixEntries[j].value = ixEntries[k].value
       /\ ixEntries[j].id # ixEntries[k].id
  /\ \E j, k \in 1..Len(ixEntries) : ixEntries[j].value # ixEntries[k].value

\* C13: on a string index holding any entries, '%t%' returns exactly the ids
\* of the entries whose value contains t, 't%' those whose value starts with
\* t, '%t' those whose value ends with t, and t itself those whose value
\* equals t (t case-folded like the values on a case-insensitive index); so
\* the binary-search lookups return what a scan of all entries returns.
C13_StringQueries ==
  ixType = "string" =>
    \A t \in Terms :
      LET find(q) == IndexFind(ixEntries, ixType, ixIgnoreCase, q)
          term == IF ixIgnoreCase THEN ToLowerCase(t) ELSE t
          value(k) == ixEntries[k].value.v
          all == 1..Len(ixEntries)
      IN /\ ReturnsEntries(find(<<Ch.pct>> \o t \o <<Ch.pct>>),
                           [k \in all |-> Includes(value(k), term)])
         /\ ReturnsEntries(find(t \o <<Ch.pct>>),
                           [k \in all |-> StartsWith(value(k), term)])
         /\ ReturnsEntries(find(<<Ch.pct>> \o t),
                           [k \in all |-> EndsWith(value(k), term)])
         /\ ReturnsEntries(find(t), [k \in all |-> value(k) = term])

\* find was called on a full string index in which the term 'a' is a whole
\* value, the start of a longer value and the end of another
C13_Witness ==
  /\ ixType = "string"
  /\ last.op = "find"
  /\ Len(ixEntries) = MaxEntries
  /\ \E k \in 1..Len(ixEntries) : ixEntries[k].value.v = <<Ch.a>>
  /\ \E k \in 1..Len(ixEntries) : ixEntries[k].value.v = <<Ch.a, Ch.b>>
  /\ \E k \in 1..Len(ixEntries) : ixEntries[k].value.v = <<Ch.b, Ch.a>>

\* the strings of a set that differ from s in the case of letters at most
SameLetters(set, s) == {u \in set : ToLowerCase(u) = ToLowerCase(s)}

\* C14: on a case-insensitive string index the result of every query form is
\* the same for all spellings of the query that differ in case only, and
\* add leaves the same index for all spellings of the value that differ in
\* case only; on a case-sensitive index such values are distinct: adding one
\* changes the exact lookup of that spelling and of no other.
C14_CaseFolding ==
  ixType = "string" =>
    LET find(es, q) == IndexFind(es, ixType, ixIgnoreCase, q) IN
    IF ixIgnoreCase
    THEN /\ \A q \in StringQueries :
              \A u \in SameLetters(StringQueries, q) :
                 find(ixEntries, u) = find(ixEntries, q)
         /\ \A id \in IndexIds, v \in Words :
              \A w \in SameLetters(Words, v) :
                 IndexAdd(ixEntries, ixIgnoreCase, id, Str(w))
                   = IndexAdd(ixEntries, ixIgnoreCase, id, Str(v))
    ELSE \A id \in IndexIds, v \in Words :
           LET added == IndexAdd(ixEntries, ixIgnoreCase, id, Str(v)) IN
           /\ Occurrences(find(added, v).ids, id)
                = Occurrences(find(ixEntries, v).ids, id) + 1
           /\ \A w \in SameLetters(Words, v) \ {v} :
                find(added, w) = find(ixEntries, w)

\* find was called on a full case-insensitive index that holds 'a' and 'ab'
C14_Witness ==
  /\ ixType = "string"
  /\ ixIgnoreCase
  /\ last.op = "find"
  /\ Len(ixEntries) = MaxEntries
  /\ \E k \in 1..Len(ixEntries) : ixEntries[k].value.v = <<Ch.a>>
  /\ \E k \in 1..Len(ixEntries) : ixEntries[k].value.v = <<Ch.a, Ch.b>>

\* the number queries that are a number literal, or a range operator
\* followed by a number literal
WellFormed == Literals \cup {op \o lit : op \in Operators, lit \in Literals}

\* C15: Index.find raises a query-syntax error and returns no ids for every
\* query it cannot parse for the field's type: on a boolean field every query
\* but 'true' and 'false', on a number field every query that is neither a
\* number literal nor a range operator followed by one (the empty string, a
\* bare operator and an operator followed by blanks included).
C15_SyntaxErrors ==
  LET find(q) == IndexFind(ixEntries, ixType, ixIgnoreCase, q) IN
  /\ ixType = "boolean" =>
       \A q \in BooleanQueries \ {True, False} : find(q) = Thrown("syntax")
  /\ ixType = "number" =>
       \A q \in NumberQueries \ WellFormed : find(q) = Thrown("syntax")

\* ---- update, remove, clear, count

\* a value an exact query can ask for
Askable(val) == val.t \in {"string", "number"}

\* whether the exact find on val, on the given field, returns a document of id
ExactFindHas(findOut, id) == \E k \in 1..Len(findOut.docs) : findOut.docs[k].id = id

\* the frame of a successful update(id, partial) between the records and
\* indexes before and after, with the find of the Collection after it
UpdateFrame(id, partial, before, after, indexesBefore, indexesAfter, find(_)) ==
  LET old == MapGet(before, id)
      new == MapGet(after, id)
  IN /\ StoredIds(after) = StoredIds(before)
     /\ Len(after) = Len(before)
     /\ \A f \in DOMAIN schema \ DOMAIN partial : Field(new, f) = Field(old, f)
     /\ \A other \in StoredIds(before) \ {id} :
          MapGet(after, other) = MapGet(before, other)
     /\ \A f \in DOMAIN indexesBefore \ DOMAIN partial :
          indexesAfter[f] = indexesBefore[f]
     /\ \A f \in DOMAIN indexesBefore \cap DOMAIN partial :
          LET ic == IndexIgnoreCase(schema[f]) IN
          /\ Askable(partial[f]) =>
               ExactFindHas(find(<< <<f, ExactQueryFor(partial[f])>> >>), id)
          /\ (Askable(Field(old, f))
              /\ normalize(ic, Field(old, f)) # normalize(ic, partial[f])) =>
               ~ExactFindHas(find(<< <<f, ExactQueryFor(Field(old, f))>> >>), id)

\* C16: a successful update(id, partial) changes only the fields present in
\* partial, on the record id: the record's other fields, the other records,
\* the identifiers, count and the index of every field not in partial stay;
\* for an indexed field in partial, an exact find on the new value then
\* includes id and an exact find on the old, different value excludes it.
C16_UpdateFrame ==
  [][\A id \in Ids, partial \in Partials :
       (Update(id, partial) /\ last'.mem.err = "none" /\ last'.file.err = "none") =>
          /\ UpdateFrame(id, partial, data, data', indexes, indexes',
                         LAMBDA q : MemFind(mem', schema, q))
          /\ UpdateFrame(id, partial, fileData, fileData', fileIndexes,
                         fileIndexes', LAMBDA q : FileFind(disk', schema, q).out)
    ]_vars

\* the entries of an index that belong to other records than id
EntriesOfOthers(entries, id) ==
  LET Other(e) == e.id # id IN SelectSeq(entries, Other)

\* what a successful remove(id) leaves, between the records and indexes
\* before and after, with get and find of the Collection after it
RemoveFrame(id, before, after, indexesBefore, indexesAfter, get, find(_)) ==
  /\ get = Ok(<<>>)
  /\ Len(after) = Len(before) - 1
  /\ \A q \in Queries :
       find(q).err = "none" => ~ExactFindHas(find(q), id)
  /\ StoredIds(after) = StoredIds(before) \ {id}
  /\ \A other \in StoredIds(before) \ {id} :
       MapGet(after, other) = MapGet(before, other)
  /\ \A f \in DOMAIN indexesBefore :
       EntriesOfOthers(indexesAfter[f], id) = EntriesOfOthers(indexesBefore[f], id)

\* C17: after a successful remove(id), get(id) is undefined, count is one
\* less, no find returns a document for id, and the other records and their
\* index entries are unchanged.
C17_RemoveFrame ==
  [][\A id \in Ids :
       (Remove(id) /\ last'.mem.err = "none" /\ last'.file.err = "none") =>
          /\ RemoveFrame(id, data, data', indexes, indexes', MemGet(mem', id),
                         LAMBDA q : MemFind(mem', schema, q))
          /\ RemoveFrame(id, fileData, fileData', fileIndexes, fileIndexes',
                         FileGet(disk', id).out,
                         LAMBDA q : FileFind(disk', schema, q).out)
    ]_vars

\* count is 0, all() is empty and no find returns anything, for the count,
\* all and find of one Collection
Emptied(count, all, find(_)) ==
  /\ count = Size(0)
  /\ all = Ok(<<>>)
  /\ \A q \in Queries : find(q).docs = <<>>
  /\ \A q \in Queries :
       (Len(q) = 1 /\ q[1][1] \in IndexedFields(schema)
        /\ IndexFind(<<>>, schema[q[1][1]].type, FALSE, q[1][2]).err = "none")
         => find(q) = Ok(<<>>)

MemEmptied(c) ==
  Emptied(MemCount(c), MemAll(c), LAMBDA q : MemFind(c, schema, q))

FileEmptied(fs) ==
  Emptied(FileCount(fs).out, FileAll(fs).out, LAMBDA q : FileFind(fs, schema, q).out)

\* C18: in both modes, after clear() and again after a second clear(), count
\* is 0, all() is empty and every find on an indexed field returns nothing;
\* the second clear changes nothing, and a file-mode Collection constructed
\* afterwards on the same artifacts, with the same schema, sees the same.
C18_ClearEmpties ==
  [][Clear =>
       LET again == MemClear(mem')
           fileAgain == FileClear(disk', schema).fs
           reopened == initFileMode(disk', schema)
       IN /\ MemEmptied(mem')
          /\ FileEmptied(disk')
          /\ MemEmptied(again)
          /\ again.data = data' /\ again.indexes = indexes'
          /\ FileEmptied(fileAgain)
          /\ fileAgain.data = dataFile' /\ fileAgain.meta = metaFile'
          /\ FileEmptied(reopened)
    ]_vars

\* a clear() after both identifiers were handed out
C18_Witness == last.op = "clear" /\ nextId > MaxIds

\* count, the stored records and all() of one Collection agree, and no
\* identifier is stored twice
Counted(count, all, stored) ==
  /\ count = Size(Len(stored))
  /\ Len(all.docs) = Len(stored)
  /\ Cardinality(StoredIds(stored)) = Len(stored)
  /\ IdsOf(all.docs) = StoredIds(stored)

\* a call that stored n records: n identifiers that were not stored before
Inserted(n, before, after) ==
  /\ StoredIds(before) \subseteq StoredIds(after)
  /\ Cardinality(StoredIds(after) \ StoredIds(before)) = n
  /\ Len(after) = Len(before) + n

\* what one step does to the stored records of one Collection
CountStep(before, after, ok) ==
  /\ \A record \in InputRecords :
       Add(record) => Inserted(IF ok THEN 1 ELSE 0, before, after)
  /\ \A records \in Batches :
       AddMany(records) => Inserted(IF ok THEN Len(records) ELSE 0, before, after)
  /\ \A id \in Ids :
       Remove(id) => /\ Len(after) = Len(before) - (IF ok THEN 1 ELSE 0)
                     /\ StoredIds(after) = StoredIds(before) \ {id}
  /\ Clear => Len(after) = 0
  /\ last'.op \notin {"add", "addMany", "remove", "clear"} =>
       Len(after) = Len(before) /\ StoredIds(after) = StoredIds(before)

\* C19: every successful add, and every record of a successful addMany, is
\* stored under an identifier that was not stored before, also when a stored
\* record has the same content; count is the number of stored records and the
\* length of all(), and a step changes it by the records it inserted (add 1,
\* addMany the batch), removed (1) or cleared (to 0), and by nothing else.
C19_CountAndIds ==
  [][/\ Counted(MemCount(mem'), MemAll(mem'), data')
     /\ Counted(FileCount(disk').out, FileAll(disk').out, fileData')
     /\ CountStep(data, data', last'.mem.err = "none")
     /\ CountStep(fileData, fileData', last'.file.err = "none")
    ]_vars

\* two stored records with the same content, in both modes
C19_Witness ==
  /\ Len(data) = 2 /\ data[1].rec = data[2].rec /\ data[1].id # data[2].id
  /\ Len(fileData) = 2 /\ fileData[1].rec = fileData[2].rec
  /\ fileData[1].id # fileData[2].id
  /\ last.op \in {"add", "addMany"}

\* ---- defaults
\* Collections whose schema declares a default for sex: one of the field's
\* type, and one that is not (validateSchema does not look at default, so
\* createDB constructs both).

SchemaF == [SchemaA EXCEPT !.sex = FieldDef("string", Undef, FALSE, Undef, Str(<<Ch.B>>))]
SchemaG == [SchemaA EXCEPT !.sex = FieldDef("string", Undef, FALSE, Undef, Num(1))]
DefaultSchemas == {s \in {SchemaF, SchemaG} : ~validateSchema(s)}

InitDefaults ==
  /\ schema \in DefaultSchemas
  /\ data = <<>>
  /\ indexes = buildIndexes(schema)
  /\ LET fs == initFileMode(Storage(Absent, Absent), schema) IN
       /\ dataFile = fs.data
       /\ metaFile = fs.meta
       /\ last = [op |-> "construct", made |-> 0, mem |-> Ok(<<>>),
                  file |-> Ok(<<>>), log |-> fs.log]
  /\ nextId = 1
  /\ paired = TRUE

SpecDefaults == InitDefaults /\ [][Next]_vars

\* the schema fields a record omits
Omitted(record) == DOMAIN schema \ DOMAIN record

\* a record of known fields whose supplied values have the fields' types
Supplied(record) ==
  /\ DOMAIN record \subseteq DOMAIN schema
  /\ \A f \in DOMAIN record : ~validateRecord([g \in {f} |-> record[f]], schema, TRUE)

\* the stored record has the default of every omitted field and the
\* caller's value of every supplied one
StoredWithDefaults(record, stored) ==
  /\ \A f \in Omitted(record) : Field(stored, f) = schema[f].default
  /\ \A f \in DOMAIN record : Field(stored, f) = record[f]

\* what add and addMany do with the records they were given, on the records
\* of one Collection before and after the call, with its outcome
DefaultsStep(records, firstId, before, after, out) ==
  IF \E k \in 1..Len(records) :
       \E f \in Omitted(records[k]) : schema[f].default = Undef
  THEN out.err = "validation" /\ after = before
  ELSE /\ out.err = "none"
       /\ \A k \in 1..Len(records) :
            /\ MapHas(after, firstId + k - 1)
            /\ StoredWithDefaults(records[k], MapGet(after, firstId + k - 1))

\* C20: add and addMany store every omitted field that has a declared
\* default with that default and every supplied field with the caller's
\* value, and reject a record that omits a field without a default, storing
\* nothing.
C20_Defaults ==
  [][/\ \A record \in InputRecords :
          (Add(record) /\ Supplied(record)) =>
             /\ DefaultsStep(<<record>>, nextId, data, data', last'.mem)
             /\ DefaultsStep(<<record>>, nextId, fileData, fileData', last'.file)
     /\ \A records \in Batches :
          (AddMany(records) /\ \A k \in 1..Len(records) : Supplied(records[k])) =>
             /\ DefaultsStep(records, nextId, data, data', last'.mem)
             /\ DefaultsStep(records, nextId, fileData, fileData', last'.file)
    ]_vars

\* ---- construction
\* createDB validates the schema of each collection and then constructs the
\* Collection; a caller can also construct a Collection itself (the class is
\* exported), and the constructor validates nothing.

\* schemas validateSchema is there to reject, one per rule
SchemaH == [SchemaA EXCEPT !.sex = FieldDef("object", Bool(TRUE), FALSE, Undef, Undef)]
SchemaI == [SchemaA EXCEPT !.sex = FieldDef("string", Undef, TRUE, Bool(TRUE), Undef)]
SchemaJ == [SchemaA EXCEPT !.age = FieldDef("number", Bool(TRUE), TRUE, Bool(TRUE), Undef)]
CreateSchemas == {SchemaA, SchemaF, SchemaG, SchemaH, SchemaI, SchemaJ}

\* createDB({collections: {c: {schema: schema_}}}), with and without path
CreateDB(schema_) ==
  IF validateSchema(schema_)
  THEN /\ last' = [op |-> "createDB", made |-> 0, mem |-> Err("schema"),
                   file |-> Err("schema"), log |-> <<>>]
       /\ UNCHANGED <<schema, data, indexes, dataFile, metaFile, nextId, paired>>
  ELSE Construct(schema_)

NextCreate ==
  \/ \E schema_ \in CreateSchemas : CreateDB(schema_)
  \/ \E schema_ \in CreateSchemas : Construct(schema_)
  \/ \E record \in InputRecords : Add(record)
  \/ \E id \in Ids : Remove(id)
  \/ Clear

SpecCreate == Init /\ [][NextCreate]_vars

\* the schemas the schema rules reject: an indexed field of type object, or
\* an indexSetting on a field that is not both indexed and a string
IllFormed(schema_) ==
  \E f \in DOMAIN schema_ :
     \/ schema_[f].type = "object" /\ schema_[f].index = Bool(TRUE)
     \/ schema_[f].hasSetting
        /\ ~(Truthy(schema_[f].index) /\ schema_[f].type = "string")

\* the construction failed with a schema error and left no new Collection
Rejected ==
  /\ last'.mem.err = "schema" /\ last'.file.err = "schema"
  /\ UNCHANGED <<schema, data, indexes, dataFile, metaFile>>

\* C21: constructing a collection with an ill-formed schema, through createDB
\* or through the Collection constructor, fails with a schema error and
\* yields no collection.
C21_IllFormedSchemaRejected ==
  [][\A schema_ \in CreateSchemas :
       ((CreateDB(schema_) \/ Construct(schema_)) /\ IllFormed(schema_))
         => Rejected
    ]_vars

\* the default a field declares is not a value of the field's type
MistypedDefault(schema_) ==
  \E f \in DOMAIN schema_ :
     /\ schema_[f].default # Undef
     /\ validateRecord([g \in {f} |-> schema_[f].default], schema_, TRUE)

\* C22: createDB rejects a schema in which a field's default is not of the
\* field's type.
C22_MistypedDefaultRejected ==
  [][\A schema_ \in CreateSchemas :
       (CreateDB(schema_) /\ MistypedDefault(schema_)) => Rejected
    ]_vars

\* ---- the index and the artifacts

\* the Index file mode gets back: serialize, JSON.stringify and JSON.parse of
\* the meta artifact, Index.fromEntries
Reloaded(entries) == fromEntries(JsonEntries(serialize(entries)))

\* C23: an Index rebuilt from its exported entry sequence, the way file mode
\* does through the meta artifact, answers every query as the Index it was
\* exported from.
C23_SerializeRoundTrip ==
  \A q \in IndexQueries(ixType) :
     IndexFind(Reloaded(ixEntries), ixType, ixIgnoreCase, q)
       = IndexFind(ixEntries, ixType, ixIgnoreCase, q)

\* the entries of an index that belong to the record id
EntriesOf(entries, id) ==
  LET Own(e) == e.id = id IN SelectSeq(entries, Own)

\* the stored value of an indexed field and the field's index entries for the
\* record agree: no value and no entry, or one entry with the value
Agree(stored, entries, id, ignoreCase) ==
  IF stored = Undef THEN EntriesOf(entries, id) = <<>>
  ELSE EntriesOf(entries, id) = <<Entry(normalize(ignoreCase, stored), id)>>

\* C24: after update(id, partial) with an indexed field of partial set to
\* undefined, the stored value of that field and the field's index entry
\* for id agree, in both modes.
C24_UndefinedUpdateKeepsIndex ==
  [][\A id \in Ids, partial \in Partials :
       (Update(id, partial) /\ last'.mem.err = "none" /\ last'.file.err = "none") =>
          \A f \in DOMAIN partial \cap DOMAIN indexes :
             partial[f] = Undef =>
               LET ic == IndexIgnoreCase(schema[f]) IN
               /\ Agree(Field(MapGet(data', id), f), indexes'[f], id, ic)
               /\ Agree(Field(MapGet(fileData', id), f), fileIndexes'[f], id, ic)
    ]_vars

\* the indexes built from the records of the data artifact, in the
\* artifact's order: the loop of load() over Object.entries(rawData)
Rebuilt(fs, schema_) ==
  InsertAll(<<>>, buildIndexes(schema_), schema_, readData(fs)).indexes

\* C25: in file mode, after construction and after every mutation, the entry
\* sequence the meta artifact holds for each indexed field is the entry
\* sequence of an index built afresh from the data artifact's records in
\* their order, ties included.
C25_MetaIsRebuildable == fileIndexes = Rebuilt(disk, schema)

\* ---- the order of the entries

\* non-decreasing order of value
Sorted(entries) ==
  \A k \in 1..(Len(entries) - 1) : compare(entries[k].value, entries[k + 1].value) <= 0

\* entries with one more entry, put behind every entry of its value
\* (behind is TRUE: earlier insertion first) or in front of them
InsertedAmongTies(before, after_, entry, behind) ==
  \E idx \in 0..Len(before) :
     /\ after_ = SpliceIn(before, idx, entry)
     /\ \A k \in 1..idx :
          IF behind THEN compare(before[k].value, entry.value) <= 0
          ELSE compare(before[k].value, entry.value) < 0
     /\ \A k \in (idx + 1)..Len(before) :
          IF behind THEN compare(before[k].value, entry.value) > 0
          ELSE compare(before[k].value, entry.value) >= 0

\* entries with at most one entry taken out, the others in their order
OneTakenOut(before, after_) ==
  \/ after_ = before
  \/ \E i \in 0..(Len(before) - 1) : after_ = SpliceOut(before, i)

\* what add, remove and clear do to the entry sequence of the Index
EntryOrder(behind) ==
  /\ Sorted(ixEntries')
  /\ \A id \in IndexIds, value \in IndexValues(ixType) :
       /\ IndexAddStep(id, value) =>
            InsertedAmongTies(ixEntries, ixEntries',
                              Entry(normalize(ixIgnoreCase, value), id), behind)
       /\ IndexRemoveStep(id, value) => OneTakenOut(ixEntries, ixEntries')
  /\ IndexClearStep => ixEntries' = <<>>

\* C26, as claimed: the entries stay sorted by normalized value, and entries
\* of the same value are in the order of their insertion, earlier first: add
\* puts the new entry behind the entries of its value, remove and clear keep
\* the order of what they leave.
C26_TiesInInsertionOrder == [][EntryOrder(TRUE)]_vars

\* C26, amended: the entries stay sorted by normalized value, and entries of
\* the same value are in the reverse order of their insertion, later first:
\* add puts the new entry in front of the entries of its value.
C26_TiesInReverseInsertionOrder == [][EntryOrder(FALSE)]_vars

\* an add next to an entry of the same value and another record
C26_Witness ==
  /\ last.op = "add"
  /\ \E k \in 1..(Len(ixEntries) - 1) :
       /\ ixEntries[k].value = ixEntries[k + 1].value
       /\ ixEntries[k].id # ixEntries[k + 1].id

\* ---- backend failures
\* A file-mode operation is a sequence of adapter calls (the log of its
\* outcome), and any one of them can throw: readFileSync, JSON.parse and
\* writeFileSync are not caught anywhere.  The operation then stops: the
\* writes before the failing call have happened, the failing call and the
\* calls after it have not.

\* the storage an operation with outcome f leaves when its k-th call throws
Interrupted(fs, f, k) ==
  LET calls == f.fs.log
      done == {calls[j] : j \in 1..(k - 1)}
  IN [data |-> IF "writeData" \in done THEN f.fs.data ELSE fs.data,
      meta |-> IF "writeMeta" \in done THEN f.fs.meta ELSE fs.meta,
      log |-> SubSeq(calls, 1, k)]

\* the records and partials of the operations that meet a failure
FaultRecords ==
  { [name |-> Str(<<Ch.a>>), age |-> Num(1), sex |-> Str(<<Ch.a>>)],
    [name |-> Str(<<Ch.A, Ch.b>>), age |-> Num(1), sex |-> Str(<<Ch.a>>)] }
FaultPartials == { [name |-> Str(<<Ch.A>>)], [age |-> Num(1)] }

\* the file-mode operation with outcome f throws at its k-th adapter call,
\* after generateId() was called made times; the memory-mode Collection is
\* not involved
Fault(op, f, k, made) ==
  LET fs == Interrupted(disk, f, k) IN
  /\ k \in 1..Len(f.fs.log)
  /\ nextId + made - 1 <= MaxIds
  /\ dataFile' = fs.data
  /\ metaFile' = fs.meta
  /\ nextId' = nextId + made
  /\ paired' = FALSE
  /\ last' = [op |-> op, made |-> made, mem |-> Ok(<<>>), file |-> Err("backend"),
              log |-> fs.log]
  /\ UNCHANGED <<schema, data, indexes>>

Calls == 1..4

FaultyAdd(record, k) == Fault("add", FileAdd(disk, schema, nextId, record), k, 1)

FaultyAddMany(records, k) ==
  Fault("addMany", FileAddMany(disk, schema, nextId, records), k, Len(records))

FaultyUpdate(id, partial, k) ==
  Fault("update", FileUpdate(disk, schema, id, partial), k, 0)

FaultyRemove(id, k) == Fault("remove", FileRemove(disk, schema, id), k, 0)

FaultyClear(k) == Fault("clear", FileClear(disk, schema), k, 0)

NextFault ==
  \/ \E record \in FaultRecords : Add(record)
  \/ \E id \in Ids, partial \in FaultPartials : Update(id, partial)
  \/ \E id \in Ids : Remove(id)
  \/ Clear
  \/ \E record \in FaultRecords, k \in Calls : FaultyAdd(record, k)
  \/ \E r1, r2 \in FaultRecords, k \in Calls : FaultyAddMany(<<r1, r2>>, k)
  \/ \E id \in Ids, partial \in FaultPartials, k \in Calls : FaultyUpdate(id, partial, k)
  \/ \E id \in Ids, k \in Calls : FaultyRemove(id, k)
  \/ \E k \in Calls : FaultyClear(k)

SpecFault == Init /\ [][NextFault]_vars

\* the adapter call that threw in the last operation
FailedCall == last.log[Len(last.log)]

\* C27: when an adapter call throws inside a file-mode operation on
\* artifacts that agree, and the call was a read, data artifact and meta
\* artifact still agree afterwards: only a failing write can leave them
\* inconsistent.
C27_FailedReadKeepsConsistency ==
  [][(/\ last'.file.err = "backend"
      /\ FailedCall' \in {"readData", "readMeta"}
      /\ IndexMatchesData(fileIndexes, fileData))
       => IndexMatchesData(fileIndexes', fileData')
    ]_vars

\* the adapter calls of an operation are reads of both artifacts, then one
\* writeData, then one writeMeta
ReadsThenWrites(log) ==
  /\ Len(log) >= 2
  /\ SubSeq(log, Len(log) - 1, Len(log)) = <<"writeData", "writeMeta">>
  /\ {log[k] : k \in 1..(Len(log) - 2)} = {"readData", "readMeta"}

\* C28: every successful file-mode add, addMany, update and remove reads the
\* data and meta artifacts before its first write, then writes the data
\* artifact once and the meta artifact once, in that order.
C28_ReadsBeforeWrites ==
  (last.op \in {"add", "addMany", "update", "remove"} /\ last.file.err = "none")
    => ReadsThenWrites(last.log)

\* ---- two instances on one path
\* Two file-mode Collections with the same schema, bound to the same path.
\* A file-mode Collection never fills its in-process maps (data and indexes
\* stay the empty maps of the constructor); every operation of either
\* instance reads the artifacts, works on that copy and writes it back.
\* Operations do not overlap: each step is one whole operation.

Instances == {1, 2}

\* the record of a call, with the instance that made it
CallBy(i, op, made, f) ==
  [op |-> op, made |-> made, mem |-> Ok(<<>>), file |-> f.out, log |-> f.fs.log,
   by |-> i]

InitTwo ==
  /\ schema = SchemaA
  /\ data = <<>>
  /\ indexes = EmptyRecord
  /\ LET first == initFileMode(Storage(Absent, Absent), schema)
         second == initFileMode(Storage(first.data, first.meta), schema)
     IN /\ dataFile = second.data
        /\ metaFile = second.meta
        /\ last = CallBy(2, "construct", 0, File(second, Ok(<<>>)))
  /\ nextId = 1
  /\ paired = FALSE

\* instance i completes an operation with outcome f that used made identifiers
StepBy(i, op, made, f) ==
  /\ nextId + made - 1 <= MaxIds
  /\ dataFile' = f.fs.data
  /\ metaFile' = f.fs.meta
  /\ nextId' = nextId + made
  /\ last' = CallBy(i, op, made, f)
  /\ UNCHANGED <<schema, data, indexes, paired>>

AddBy(i, record) ==
  LET f == FileAdd(disk, schema, nextId, record) IN
  StepBy(i, "add", IF f.out.err = "none" THEN 1 ELSE 0, f)

AddManyBy(i, records) ==
  StepBy(i, "addMany", ValidPrefix(schema, records),
         FileAddMany(disk, schema, nextId, records))

UpdateBy(i, id, partial) ==
  LET f == FileUpdate(disk, schema, id, partial) IN
  /\ \A g \in DOMAIN f.fs.meta.content.indexes :
       Len(f.fs.meta.content.indexes[g]) <= MaxIds
  /\ StepBy(i, "update", 0, f)

RemoveBy(i, id) == StepBy(i, "remove", 0, FileRemove(disk, schema, id))

ClearBy(i) == StepBy(i, "clear", 0, FileClear(disk, schema))

GetBy(i, id) == StepBy(i, "get", 0, FileGet(disk, id))

AllBy(i) == StepBy(i, "all", 0, FileAll(disk))

FindBy(i, query) == StepBy(i, "find", 0, FileFind(disk, schema, query))

CountBy(i) == StepBy(i, "count", 0, FileCount(disk))

NextTwo ==
  \E i \in Instances :
     \/ \E record \in InputRecords : AddBy(i, record)
     \/ \E records \in Batches : AddManyBy(i, records)
     \/ \E id \in Ids, partial \in Partials : UpdateBy(i, id, partial)
     \/ \E id \in Ids : RemoveBy(i, id)
     \/ ClearBy(i)
     \/ \E id \in Ids : GetBy(i, id)
     \/ AllBy(i)
     \/ \E query \in Queries : FindBy(i, query)
     \/ CountBy(i)

SpecTwo == InitTwo /\ [][NextTwo]_vars

\* what the other instance reads after the mutation a step completed: the
\* documents add, addMany and update returned, nothing for a removed id,
\* nothing at all after clear, and a count that is the length of all()
Reflected ==
  LET ok == last'.file.err = "none"
      got(id) == FileGet(disk', id).out
  IN /\ (last'.op \in {"add", "addMany", "update"} /\ ok) =>
          \A k \in 1..Len(last'.file.docs) :
             SameOutcome(got(last'.file.docs[k].id), Ok(<<last'.file.docs[k]>>))
     /\ \A i \in Instances, id \in Ids :
          (RemoveBy(i, id) /\ ok) =>
             /\ got(id) = Ok(<<>>)
             /\ \A q \in Queries :
                  ~ExactFindHas(FileFind(disk', schema, q).out, id)
     /\ last'.op = "clear" => FileAll(disk').out = Ok(<<>>)
     /\ FileCount(disk').out = Size(Len(FileAll(disk').out.docs))

\* C29: with two file-mode instances of one schema on one path whose
\* operations do not overlap, what either instance reads reflects every
\* mutation either has completed, and the data artifact and the meta
\* artifact's indexes agree after every operation.
C29_TwoInstancesSequential ==
  [][Reflected /\ IndexMatchesData(fileIndexes', fileData')]_vars

\* ---- two instances, overlapping
\* The file-mode add of two instances on one path, one adapter call per step.
\* Here data[i] and indexes[i] are the local copies `data` and `indexes` of
\* the add instance i is in, and last[i] is where that add stands: the
\* adapter call it makes next (pc), its record and identifier, and the
\* identifiers the instance's adds have returned.

Idle(returned) ==
  [pc |-> "idle", id |-> 0, rec |-> EmptyRecord, returned |-> returned]

InitRace ==
  /\ schema = SchemaA
  /\ data = [i \in Instances |-> <<>>]
  /\ indexes = [i \in Instances |-> buildIndexes(schema)]
  /\ LET fs == initFileMode(Storage(Absent, Absent), schema) IN
       /\ dataFile = fs.data
       /\ metaFile = fs.meta
  /\ last = [i \in Instances |-> Idle({})]
  /\ nextId = 1
  /\ paired = FALSE

\* add(record) is called on instance i: defaults, validation, generateId()
AddCalled(i, record) ==
  LET withDefaults == applyDefaults(schema, record) IN
  /\ last[i].pc = "idle"
  /\ nextId <= MaxIds
  /\ ~validateRecord(withDefaults, schema, FALSE)
  /\ last' = [last EXCEPT ![i] = [@ EXCEPT !.pc = "readData", !.id = nextId,
                                           !.rec = withDefaults]]
  /\ nextId' = nextId + 1
  /\ UNCHANGED <<schema, data, indexes, dataFile, metaFile, paired>>

\* const data = this.readData(); data.set(id, withDefaults)
AddReadsData(i) ==
  /\ last[i].pc = "readData"
  /\ data' = [data EXCEPT ![i] = MapSet(readData(disk), last[i].id, last[i].rec)]
  /\ last' = [last EXCEPT ![i].pc = "writeData"]
  /\ UNCHANGED <<schema, indexes, dataFile, metaFile, nextId, paired>>

\* A writeData that merges: it reads the artifact again and adds only the
\* add's own record to it (what an isolated add would leave).
AddMergesData(i) ==
  /\ last[i].pc = "writeData"
  /\ dataFile' = StorageWriteData(disk, MapSet(readData(disk), last[i].id,
                                               last[i].rec)).data
  /\ last' = [last EXCEPT ![i].pc = "readMeta"]
  /\ UNCHANGED <<schema, data, indexes, metaFile, nextId, paired>>

\* this.writeData(data)
AddWritesData(i) ==
  /\ last[i].pc = "writeData"
  /\ dataFile' = StorageWriteData(disk, data[i]).data
  /\ last' = [last EXCEPT ![i].pc = "readMeta"]
  /\ UNCHANGED <<schema, data, indexes, metaFile, nextId, paired>>

\* const indexes = this.loadIndexesFromMeta(); the loop of index.add
AddReadsMeta(i) ==
  /\ last[i].pc = "readMeta"
  /\ indexes' = [indexes EXCEPT ![i] =
                   AddToIndexes(loadIndexesFromMeta(disk, schema), schema,
                                last[i].id, last[i].rec)]
  /\ last' = [last EXCEPT ![i].pc = "writeMeta"]
  /\ UNCHANGED <<schema, data, dataFile, metaFile, nextId, paired>>

\* this.storage.writeMeta(this.name, this.buildMeta(indexes)); return
AddWritesMeta(i) ==
  /\ last[i].pc = "writeMeta"
  /\ metaFile' = StorageWriteMeta(disk, buildMeta(schema, indexes[i])).meta
  /\ last' = [last EXCEPT ![i] = Idle(@.returned \cup {@.id})]
  /\ UNCHANGED <<schema, data, indexes, dataFile, nextId, paired>>

NextRace ==
  \E i \in Instances :
     \/ \E record \in FaultRecords : AddCalled(i, record)
     \/ AddReadsData(i)
     \/ AddWritesData(i)
     \/ AddReadsMeta(i)
     \/ AddWritesMeta(i)

SpecRace == InitRace /\ [][NextRace]_vars

\* the identifiers that have entries in every index of the meta artifact
IndexedIds(indexes_) ==
  {id \in Ids : \A f \in DOMAIN indexes_ : EntriesOf(indexes_[f], id) # <<>>}

\* C30: the adapter calls of two adds are not isolated from each other.  A
\* write of an add replaces the artifact by the add's own copy: a record
\* (an index entry) the artifact holds survives the write exactly if the add
\* had read it, so what the other instance wrote after that read is lost,
\* though both adds return.
C30_WritesOverwrite ==
  [][\A i \in Instances :
       /\ AddWritesData(i) =>
            /\ last[i].id \in StoredIds(fileData')
            /\ \A id \in StoredIds(fileData) :
                 id \in StoredIds(fileData') <=> id \in StoredIds(data[i])
       /\ AddWritesMeta(i) =>
            /\ last[i].id \in IndexedIds(fileIndexes')
            /\ \A id \in IndexedIds(fileIndexes) :
                 id \in IndexedIds(fileIndexes') <=> id \in IndexedIds(indexes[i])
    ]_vars

\* both instances have returned from an add, and a record one of them added
\* is missing from the data artifact or from the meta artifact's indexes
C30_Witness ==
  /\ \A i \in Instances : last[i].pc = "idle" /\ last[i].returned # {}
  /\ \E i \in Instances, id \in Ids :
       /\ id \in last[i].returned
       /\ id \notin StoredIds(fileData) \/ id \notin IndexedIds(fileIndexes)

\* ---- the adapter of a memory-mode Collection
\* A memory-mode Collection is constructed with a MemoryAdapter like any
\* other storage, and keeps it in this.storage.  Here paired holds that
\* adapter's stores (dataStore and metaStore for the collection, with the
\* log of the calls made on it), next to the artifacts of the file-mode
\* Collection in dataFile and metaFile.

\* The older Collection's save(): every mutation writes the record map and
\* the schema to the adapter.
MemPersistSave(store, c) ==
  StorageWriteMeta(StorageWriteData(store, c.data), buildMeta(schema, EmptyRecord))

\* what a memory-mode operation does with this.storage: the else branches of
\* add, addMany, update, remove and clear make no adapter call
MemPersist(store, c) == store

InitAdapter ==
  /\ schema = SchemaA
  /\ data = <<>>
  /\ indexes = buildIndexes(schema)
  /\ LET fs == initFileMode(Storage(Absent, Absent), schema) IN
       /\ dataFile = fs.data
       /\ metaFile = fs.meta
       /\ last = [op |-> "construct", made |-> 0, mem |-> Ok(<<>>),
                  file |-> Ok(<<>>), log |-> fs.log]
  /\ nextId = 1
  /\ paired = Storage(Absent, Absent)

\* a mutating call on both Collections, each with its adapter
Persisting(op, made, m, f) ==
  /\ nextId + made - 1 <= MaxIds
  /\ Mutated(m, f)
  /\ nextId' = nextId + made
  /\ last' = Call(op, made, m, f)
  /\ paired' = MemPersist(paired, m)
  /\ UNCHANGED schema

PersistingAdd(record) ==
  LET m == MemAdd(mem, schema, nextId, record) IN
  Persisting("add", IF m.out.err = "none" THEN 1 ELSE 0, m,
             FileAdd(disk, schema, nextId, record))

PersistingAddMany(records) ==
  Persisting("addMany", ValidPrefix(schema, records),
             MemAddMany(mem, schema, nextId, records),
             FileAddMany(disk, schema, nextId, records))

PersistingUpdate(id, partial) ==
  Persisting("update", 0, MemUpdate(mem, schema, id, partial),
             FileUpdate(disk, schema, id, partial))

PersistingRemove(id) ==
  Persisting("remove", 0, MemRemove(mem, schema, id), FileRemove(disk, schema, id))

PersistingClear == Persisting("clear", 0, MemClear(mem), FileClear(disk, schema))

NextAdapter ==
  \/ \E record \in InputRecords : PersistingAdd(record)
  \/ \E r1, r2 \in FaultRecords : PersistingAddMany(<<r1, r2>>)
  \/ \E id \in Ids, partial \in FaultPartials : PersistingUpdate(id, partial)
  \/ \E id \in Ids : PersistingRemove(id)
  \/ PersistingClear

SpecAdapter == InitAdapter /\ [][NextAdapter]_vars

\* a mutating call has succeeded
Mutation ==
  /\ last.op \in {"add", "addMany", "update", "remove", "clear"}
  /\ last.mem.err = "none" /\ last.file.err = "none"

NotFound(call) == call.mem.err = "notfound" /\ call.file.err = "notfound"

\* C32: update(id, partial) and remove(id) with an identifier that is not
\* stored fail with a 'not found' error, whatever partial is passed to update.
C32_UnknownIdNotFound ==
  [][\A id \in Ids :
       (id \notin StoredIds(data) /\ id \notin StoredIds(fileData)) =>
         /\ Remove(id) => NotFound(last')
         /\ \A partial \in Partials : Update(id, partial) => NotFound(last')]_vars

\* ---- Index.remove takes out one entry

\* the positions of the entries of the pair (id, value) in the Index
PositionsOf(entries, ignoreCase, id, value) ==
  {k \in 1..Len(entries) :
     StrictEq(entries[k].value, normalize(ignoreCase, value)) /\ entries[k].id = id}

\* entries without the first entry of the pair, or entries when there is none
FirstTakenOut(entries, ignoreCase, id, value) ==
  LET at == PositionsOf(entries, ignoreCase, id, value) IN
  IF at = {} THEN entries
  ELSE SpliceOut(entries, (CHOOSE k \in at : \A l \in at : k <= l) - 1)

\* C33: Index.remove(id, value) removes the first entry whose normalized
\* value and id both match and leaves the other entries and their order
\* unchanged; when no entry matches, the Index is unchanged and no error is
\* raised.
C33_RemoveTakesFirstMatch ==
  [][\A id \in IndexIds, value \in IndexValues(ixType) :
       IndexRemoveStep(id, value) =>
         ixEntries' = FirstTakenOut(ixEntries, ixIgnoreCase, id, value)]_vars

\* a remove has left a second entry of a pair that was stored twice
C33_Witness ==
  /\ last.op = "remove"
  /\ Len(ixEntries) = MaxEntries - 1
  /\ \E k, l \in 1..Len(ixEntries) : k < l /\ ixEntries[k] = ixEntries[l]

\* ---- reopening with an equivalent schema

\* SchemaB with case-insensitivity written off: indexSetting {ignoreCase: false}
SchemaK == [SchemaA EXCEPT !.name = FieldDef("string", Bool(TRUE), TRUE, Bool(FALSE), Undef)]
EquivalentSchemas == {SchemaA, SchemaB, SchemaF, SchemaK}

NextEquivalent ==
  \/ \E record \in InputRecords : Add(record)
  \/ \E id \in Ids : Remove(id)
  \/ \E schema_ \in EquivalentSchemas : Construct(schema_)

SpecEquivalent == Init /\ [][NextEquivalent]_vars

\* C34: constructing a file-mode collection on a path whose persisted schema
\* has the same field names, types, indexed flags and effective case folding
\* as the constructor's schema (they may differ in defaults or in writing
\* ignoreCase: false for no indexSetting) keeps the stored data and performs
\* no storage write.
C34_EquivalentSchemaKeepsData ==
  [][\A schema_ \in EquivalentSchemas :
       (/\ Construct(schema_)
        /\ metaFile.exists
        /\ ~SchemaDiffers(schema_, metaFile.content.schema))
       => /\ dataFile' = dataFile
          /\ metaFile' = metaFile
          /\ Writes(last'.log) = {}]_vars

\* ---- a database of several collections
\* createDB gives every Collection the same storage adapter.  In this part
\* schema, data and indexes are functions of the collection name (the
\* Collection objects the program holds, and the memory-mode Collections'
\* state), and dataFile and metaFile are functions of the path of an artifact
\* below basePath (the FileAdapter's directory).

\* a collection name is the sequence of its path segments: 'users', 'posts',
\* './users'
CollectionNames == { <<"users">>, <<"posts">>, <<".", "users">> }

RECURSIVE join(_, _)
\* path.join below basePath: '.' segments are dropped, '..' takes a segment
\* back
join(resolved, segments) ==
  IF segments = <<>> THEN resolved
  ELSE IF Head(segments) = "." THEN join(resolved, Tail(segments))
  ELSE IF Head(segments) = ".." /\ resolved # <<>>
  THEN join(SubSeq(resolved, 1, Len(resolved) - 1), Tail(segments))
  ELSE join(Append(resolved, Head(segments)), Tail(segments))

\* FileAdapter.dataPath and metaPath, without the suffixes .data.json and
\* .meta.json: the data file is read off dataFile, the meta file off metaFile
dataPath(collection) == join(<<>>, collection)
metaPath(collection) == join(<<>>, collection)

Paths == {dataPath(name) : name \in CollectionNames}

\* the adapter as the Collection `name` sees it
DiskOf(name) == Storage(dataFile[dataPath(name)], metaFile[metaPath(name)])
MemOf(name) == [data |-> data[name], indexes |-> indexes[name]]

RECURSIVE createLoop(_, _, _, _)
\* the loop of createDB over Object.entries(options.collections), in file
\* mode: validateSchema, then new Collection(name, schema, storage)
createLoop(dataFiles, metaFiles, config, log) ==
  IF config = <<>>
  THEN [dataFile |-> dataFiles, metaFile |-> metaFiles, err |-> "none", log |-> log]
  ELSE LET name == Head(config).name
           schema_ == Head(config).schema
           fs == initFileMode(Storage(dataFiles[dataPath(name)],
                                      metaFiles[metaPath(name)]), schema_)
       IN IF validateSchema(schema_)
          THEN [dataFile |-> dataFiles, metaFile |-> metaFiles, err |-> "schema",
                log |-> log]
          ELSE createLoop([dataFiles EXCEPT ![dataPath(name)] = fs.data],
                          [metaFiles EXCEPT ![metaPath(name)] = fs.meta],
                          Tail(config), log \o fs.log)

DBSchemas == {SchemaA, SchemaB, SchemaH}
Configs ==
  {<<[name |-> n, schema |-> s]>> : n \in CollectionNames, s \in DBSchemas}
  \cup {c \in {<<[name |-> n1, schema |-> s1], [name |-> n2, schema |-> s2]>> :
                   n1 \in CollectionNames, n2 \in CollectionNames,
                   s1 \in {SchemaB}, s2 \in {SchemaA, SchemaH}} :
          c[1].name # c[2].name}

\* createDB({path, collections: {users, posts, './users'}}) and the same
\* without path, every collection with SchemaA, on an empty directory
InitDB ==
  /\ schema = [name \in CollectionNames |-> SchemaA]
  /\ data = [name \in CollectionNames |-> <<>>]
  /\ indexes = [name \in CollectionNames |-> buildIndexes(SchemaA)]
  /\ LET fs == initFileMode(Storage(Absent, Absent), SchemaA) IN
       /\ dataFile = [p \in Paths |-> fs.data]
       /\ metaFile = [p \in Paths |-> fs.meta]
       /\ last = [op |-> "createDB", name |-> <<>>, made |-> 0, mem |-> Ok(<<>>),
                  file |-> Ok(<<>>), log |-> fs.log]
  /\ nextId = 1
  /\ paired = TRUE

\* createDB(config) with and without path; the Collections of a database
\* that was returned replace the ones held under the same names
DBCreate(config) ==
  LET r == createLoop(dataFile, metaFile, config, <<>>)
      At(n) == CHOOSE k \in 1..Len(config) : config[k].name = n
      names == {config[k].name : k \in 1..Len(config)}
      out == IF r.err = "none" THEN Ok(<<>>) ELSE Err(r.err)
  IN /\ dataFile' = r.dataFile
     /\ metaFile' = r.metaFile
     /\ IF r.err = "none"
        THEN /\ schema' = [n \in CollectionNames |->
                             IF n \in names THEN config[At(n)].schema ELSE schema[n]]
             /\ data' = [n \in CollectionNames |->
                           IF n \in names THEN <<>> ELSE data[n]]
             /\ indexes' = [n \in CollectionNames |->
                              IF n \in names THEN buildIndexes(config[At(n)].schema)
                              ELSE indexes[n]]
        ELSE UNCHANGED <<schema, data, indexes>>
     /\ last' = [op |-> "createDB", name |-> <<>>, made |-> 0, mem |-> out,
                 file |-> out, log |-> r.log]
     /\ UNCHANGED <<nextId, paired>>

\* a mutating call on the Collection `name` of the database
OnCollection(name, op, made, m, f) ==
  /\ data' = [data EXCEPT ![name] = m.data]
  /\ indexes' = [indexes EXCEPT ![name] = m.indexes]
  /\ dataFile' = [dataFile EXCEPT ![dataPath(name)] = f.fs.data]
  /\ metaFile' = [metaFile EXCEPT ![metaPath(name)] = f.fs.meta]
  /\ nextId' = nextId + made
  /\ last' = [op |-> op, name |-> name, made |-> made, mem |-> m.out,
              file |-> f.out, log |-> f.fs.log]
  /\ UNCHANGED <<schema, paired>>

DBAdd(name, record) ==
  /\ nextId <= MaxIds
  /\ OnCollection(name, "add", 1, MemAdd(MemOf(name), schema[name], nextId, record),
                  FileAdd(DiskOf(name), schema[name], nextId, record))

DBRemove(name, id) ==
  OnCollection(name, "remove", 0, MemRemove(MemOf(name), schema[name], id),
               FileRemove(DiskOf(name), schema[name], id))

DBClear(name) ==
  OnCollection(name, "clear", 0, MemClear(MemOf(name)),
               FileClear(DiskOf(name), schema[name]))

DBRecord == [name |-> Str(<<Ch.a>>), age |-> Num(1), sex |-> Str(<<Ch.a>>)]

NextDB ==
  \/ \E config \in Configs : DBCreate(config)
  \/ \E name \in CollectionNames : DBAdd(name, DBRecord)
  \/ \E name \in CollectionNames, id \in Ids : DBRemove(name, id)
  \/ \E name \in CollectionNames : DBClear(name)

SpecDB == InitDB /\ [][NextDB]_vars

\* C35: a createDB that throws a schema-definition error for one of its
\* collections has created, overwritten or reset no data or meta artifact of
\* any collection.
C35_CreateAllOrNothing ==
  [][\A config \in Configs :
       (DBCreate(config) /\ last'.file.err = "schema") =>
         (dataFile' = dataFile /\ metaFile' = metaFile)]_vars

\* an operation on the Collection `name`: a mutating call, or a construction
\* of that collection alone
OperationOn(name) ==
  \/ DBAdd(name, DBRecord)
  \/ \E id \in Ids : DBRemove(name, id)
  \/ DBClear(name)
  \/ \E schema_ \in DBSchemas : DBCreate(<<[name |-> name, schema |-> schema_]>>)

\* C37: an operation on one collection of a database (clear and a
\* schema-drift reset at construction included) leaves the records, the
\* indexes and the persisted artifacts of every other collection unchanged.
C37_CollectionsIndependent ==
  [][\A name \in CollectionNames :
       OperationOn(name) =>
         \A other \in CollectionNames \ {name} :
            /\ data'[other] = data[other]
            /\ indexes'[other] = indexes[other]
            /\ DiskOf(other)' = DiskOf(other)]_vars

\* ---- the read operations

\* a step of get, all, find or count
ReadStep ==
  \/ \E id \in Ids : Get(id)
  \/ All
  \/ \E query \in Queries : Find(query)
  \/ Count

\* C36: get, all, find and count change no state: in file mode they call
\* neither writeData nor writeMeta, and in both modes the records and every
\* index are the same before and after the call, also when find fails.
C36_ReadsChangeNothing ==
  [][ReadStep =>
       /\ Writes(last'.log) = {}
       /\ dataFile' = dataFile /\ metaFile' = metaFile
       /\ fileData' = fileData /\ fileIndexes' = fileIndexes
       /\ data' = data /\ indexes' = indexes]_vars

\* a find that has failed on a collection holding records: the field zip is
\* not in the schema, and the adapter was asked for the meta artifact only
C36_Witness ==
  /\ last.op = "find"
  /\ last.log = <<"readMeta">>
  /\ FileFind(disk, schema, << <<"zip", <<Ch.a>> >> >>).out.err # "none"
  /\ Len(data) = MaxIds /\ Len(fileData) = MaxIds

\* ---- a schema that declares a field _id

\* the _id property of the object { _id: id, ...record } toDocument builds:
\* the spread comes second, so an own property _id of the record replaces the
\* identifier; the identifier k is the string String(k)
DocumentId(doc) ==
  IF "_id" \in DOMAIN doc.rec THEN doc.rec["_id"] ELSE Str(Digits(doc.id))

\* a schema with an indexed string field _id and a number field age
SchemaL ==
  [f \in {"_id", "age"} |->
     IF f = "_id" THEN FieldDef("string", Bool(TRUE), FALSE, Undef, Undef)
     ELSE FieldDef("number", Undef, FALSE, Undef, Undef)]
DocumentSchemas == {s \in {SchemaL} : ~validateSchema(s)}

DocumentRecord(s, k) == [f \in {"_id", "age"} |-> IF f = "_id" THEN Str(s) ELSE Num(k)]
DocumentRecords == {DocumentRecord(s, k) : s \in Names \cup {<<Ch.b>>}, k \in Ages}
DocumentPartials == {[age |-> Num(1)], [f \in {"_id"} |-> Str(<<Ch.b>>)]}
DocumentQueries == {<<>>, << <<"_id", <<Ch.a>> >> >>, << <<"age", <<Ch.one>> >> >>}

InitDocument ==
  /\ schema \in DocumentSchemas
  /\ data = <<>>
  /\ indexes = buildIndexes(schema)
  /\ LET fs == initFileMode(Storage(Absent, Absent), schema) IN
       /\ dataFile = fs.data
       /\ metaFile = fs.meta
       /\ last = [op |-> "construct", made |-> 0, mem |-> Ok(<<>>),
                  file |-> Ok(<<>>), log |-> fs.log]
  /\ nextId = 1
  /\ paired = TRUE

NextDocument ==
  \/ \E record \in DocumentRecords : Add(record)
  \/ \E r1, r2 \in DocumentRecords : AddMany(<<r1, r2>>)
  \/ \E id \in Ids, partial \in DocumentPartials : Update(id, partial)
  \/ \E id \in Ids : Remove(id)
  \/ \E id \in Ids : Get(id)
  \/ All
  \/ \E query \in DocumentQueries : Find(query)

SpecDocument == InitDocument /\ [][NextDocument]_vars

\* the documents a sequence holds
Range(docs) == {docs[k] : k \in 1..Len(docs)}

\* the documents the last add, addMany or update has returned, and the ones
\* get, all and find return in this state, in both modes
ReturnedDocuments ==
  Range(last.mem.docs) \cup Range(last.file.docs)
  \cup Range(MemAll(mem).docs) \cup Range(FileAll(disk).out.docs)
  \cup UNION {Range(MemGet(mem, id).docs) \cup Range(FileGet(disk, id).out.docs) :
                id \in Ids}
  \cup UNION {Range(MemFind(mem, schema, query).docs)
              \cup Range(FileFind(disk, schema, query).out.docs) :
                query \in DocumentQueries}

\* C38: for every accepted schema, one that declares a field _id included,
\* each Document returned by add, addMany, get, all, find and update carries
\* an _id equal to the identifier under which its record is stored.
C38_DocumentCarriesItsKey ==
  \A doc \in ReturnedDocuments : DocumentId(doc) = Str(Digits(doc.id))

\* ---- Index.lowerBound

\* the entries in every order
Orders(entries) ==
  {[k \in 1..Len(entries) |-> entries[f[k]]] :
     f \in {g \in [1..Len(entries) -> 1..Len(entries)] :
              \A k, l \in 1..Len(entries) : g[k] = g[l] => k = l}}

\* p is the position in 0..length with every entry before it less than the
\* target and the entry at it, if any, not less than the target
FirstNotLess(entries, target, p) ==
  /\ p \in 0..Len(entries)
  /\ \A k \in 1..p : compare(entries[k].value, target) < 0
  /\ p < Len(entries) => compare(entries[p + 1].value, target) >= 0

\* C39: Index.lowerBound terminates for every entry sequence and target
\* (sorted or not, with a result in 0..length), and on the sorted sequence of
\* the Index it returns the smallest position whose entry is not less than
\* the target, the length when there is none.
C39_LowerBound ==
  \A target \in IndexValues(ixType) :
     /\ \A entries \in Orders(ixEntries) :
          lowerBound(entries, target) \in 0..Len(entries)
     /\ FirstNotLess(ixEntries, target, lowerBound(ixEntries, target))

\* a full Index with two entries of one value behind a smaller one: the lower
\* bound of that value lies inside the sequence, in front of the two
C39_Witness ==
  /\ Len(ixEntries) = MaxEntries
  /\ \E target \in IndexValues(ixType) :
       LET p == lowerBound(ixEntries, target) IN
       /\ 0 < p /\ p + 2 <= Len(ixEntries)
       /\ ixEntries[p + 1].value = target /\ ixEntries[p + 2].value = target

====
